---- MODULE Spec2Model ----
(***************************************************************************)
(* Zircon: a streaming character reader, a lexer and a two-phase assembler. *)
(* The three subsystems are modelled as operators over records that mirror *)
(* the Rust structs; each specification below drives one of them.          *)
(***************************************************************************)
EXTENDS Integers, Sequences, FiniteSets, TLC

VARIABLES
    input,      \* reader driver: the characters given to the byte source
    rd,         \* the CharReader (with its byte source)
    out,        \* reader driver: (c, pos, line, col) after each successful next_char
    hist,       \* reader driver: the latest peek_char and the next_char that followed it
    rstat,      \* reader driver: "run", "eof" (next_char gave None) or "err"
    peeked,     \* reader driver: TRUE once peek_char has been called
    lexed,      \* tokenize: the tokens pushed so far
    lstat,      \* tokenize: "run", "done" (Ok returned) or "err" (Err returned)
    compiler,   \* compile: the Compiler
    frame,      \* compile: the `sub` block whose read_block loop is running, if any
    context,    \* compile: the CompilerContext
    pc,         \* compile: "start", "parse", "resolve", "emit", "done", "failed", "panic"
    result,     \* compile: the MultiResult returned
    ran,        \* compile: how many resolution and write closures have been run
    earlier,    \* history: what an earlier call of compile returned, if any
    written     \* history: the writes made to a CompilerContext, as (address, data)

readerVars == <<out, hist, rstat, peeked>>
lexVars == <<lexed, lstat>>
compVars == <<compiler, frame, context, pc, result, ran>>
histVars == <<earlier, written>>
vars == <<input, rd, readerVars, lexVars, compVars, histVars>>

(***************************************************************************)
(* Bounds of the model.                                                    *)
(***************************************************************************)
MaxChars == 3       \* characters in a reader input
MaxReads == 3       \* short reads the byte source makes before it reads in full
MaxChunk == 2       \* bytes a short read returns at most
MaxText == 3        \* characters in a lexer input
MaxPieces == 3      \* pieces in a source program
MaxLexemes == 3     \* words and separators in a keyword text
MaxWrites == 3      \* calls of CompilerContext::write in a row

(***************************************************************************)
(* Generic helpers.                                                        *)
(***************************************************************************)
Min(a, b) == IF a < b THEN a ELSE b
Max(a, b) == IF a > b THEN a ELSE b

\* LET x == v IN Body(x), with x a parameter
With(v, Body(_)) == Body(v)

SeqsUpTo(S, n) == UNION {[1..k -> S] : k \in 0..n}

RECURSIVE Flatten(_)
Flatten(ss) == IF ss = <<>> THEN <<>> ELSE Head(ss) \o Flatten(Tail(ss))

\* Option<usize>::None
NoneV == -1

(***************************************************************************)
(* Characters are code points.  The inputs are drawn from a few characters *)
(* of every encoded width the reader has to cope with.                     *)
(***************************************************************************)
NL == 10            \* '\n'
ReaderAlphabet == {NL, 97, 233, 8364}     \* '\n', 'a', e-acute (2 bytes), euro (3 bytes)
\* '\n', ' ', '$', ',', '/', '1', '?', 'a', euro
LexAlphabet == {NL, 32, 36, 44, 47, 49, 63, 97, 8364}

\* str::as_bytes of one character: its UTF-8 encoding.
Utf8Encode(cp) ==
    IF cp < 128 THEN <<cp>>
    ELSE IF cp < 2048 THEN <<192 + (cp \div 64), 128 + (cp % 64)>>
    ELSE IF cp < 65536
         THEN <<224 + (cp \div 4096), 128 + ((cp \div 64) % 64), 128 + (cp % 64)>>
    ELSE <<240 + (cp \div 262144), 128 + ((cp \div 4096) % 64),
           128 + ((cp \div 64) % 64), 128 + (cp % 64)>>

AsBytes(chars) == Flatten([i \in 1..Len(chars) |-> Utf8Encode(chars[i])])

\* unicode::utf8_char_width: the encoded width a leading byte declares, 0 for
\* a byte that cannot start a character.
utf8_char_width(b) ==
    IF b < 128 THEN 1
    ELSE IF b >= 194 /\ b <= 223 THEN 2
    ELSE IF b >= 224 /\ b <= 239 THEN 3
    ELSE IF b >= 240 /\ b <= 244 THEN 4
    ELSE 0

\* unicode::read_code_point: decodes the char_size bytes at buffer[pos..].
read_code_point(buffer, pos, char_size) ==
    CASE char_size = 1 -> buffer[pos + 1]
      [] char_size = 2 -> (buffer[pos + 1] % 32) * 64 + (buffer[pos + 2] % 64)
      [] char_size = 3 -> (buffer[pos + 1] % 16) * 4096 + (buffer[pos + 2] % 64) * 64
                          + (buffer[pos + 3] % 64)
      [] char_size = 4 -> (buffer[pos + 1] % 8) * 262144 + (buffer[pos + 2] % 64) * 4096
                          + (buffer[pos + 3] % 64) * 64 + (buffer[pos + 4] % 64)
      [] OTHER -> 1114112

\* std::char::from_u32 succeeds
from_u32_ok(cp) == cp >= 0 /\ cp <= 1114111 /\ ~(cp >= 55296 /\ cp <= 57343)

(***************************************************************************)
(* The byte source: any std::io::Read.  A read returns at most the bytes   *)
(* asked for; the first reads are cut short as `chunks` says, the later    *)
(* ones return all that is left (std::io::Cursor is the source with no     *)
(* short read).                                                            *)
(***************************************************************************)
Source(bytes, chunks) == [data |-> bytes, chunks |-> chunks]

Cursor(bytes) == Source(bytes, <<>>)

SrcRead(s, want) ==
    LET avail == Len(s.data)
        cap   == IF s.chunks = <<>> THEN avail ELSE Head(s.chunks)
        n     == Min(want, Min(avail, cap))
    IN  [n     |-> n,
         bytes |-> SubSeq(s.data, 1, n),
         src   |-> [data   |-> SubSeq(s.data, n + 1, avail),
                    chunks |-> IF s.chunks = <<>> THEN <<>> ELSE Tail(s.chunks)]]

(***************************************************************************)
(* CharReader  (src/char_reader/mod.rs)                                    *)
(***************************************************************************)
DEFAULT_BUF_SIZE == 5000

\* The buffer is held up to the last byte ever written; the rest is the 0 it
\* was allocated with.  Put writes bytes at buffer[at..].
Put(buffer, at, bytes) ==
    [i \in 1..Max(Len(buffer), at + Len(bytes)) |->
        IF i > at /\ i <= at + Len(bytes) THEN bytes[i - at]
        ELSE IF i <= Len(buffer) THEN buffer[i] ELSE 0]

\* CharReader::new
new(src) ==
    [src |-> src, buffer |-> <<>>, pos |-> 0, len |-> 0,
     char_pos |-> NoneV, line |-> 0, col |-> NoneV,
     lines |-> <<0>>, was_newline |-> FALSE]

LoadNone(r) == [rd |-> r, res |-> "none", c |-> NoneV, w |-> 0]

\* the tail of load_char: decode the character at buffer[pos..pos+char_size]
Decode(r, char_size) ==
    With(read_code_point(r.buffer, r.pos, char_size), LAMBDA code_point :
        IF char_size = 0 \/ ~from_u32_ok(code_point)
        THEN [rd |-> r, res |-> "err", c |-> NoneV, w |-> 0]
        ELSE [rd |-> r, res |-> "some", c |-> code_point, w |-> char_size])

\* the refill of load_char, taken when the buffer holds less than the
\* character at pos needs
Refill(r, char_size) ==
    With(r.len - r.pos, LAMBDA len1 :
    With(SrcRead(r.src, DEFAULT_BUF_SIZE - len1), LAMBDA got :
    With([r EXCEPT !.buffer = Put(Put(r.buffer, 0, SubSeq(r.buffer, r.pos + 1, r.len)),
                                  len1, got.bytes),
                   !.len = len1 + got.n, !.src = got.src], LAMBDA r2 :
        IF r2.len < char_size
        THEN LoadNone(r2)
        ELSE Decode([r2 EXCEPT !.pos = 0], char_size))))

\* load_char once the buffer is known to hold a byte at pos
LoadAt(r) ==
    With(utf8_char_width(r.buffer[r.pos + 1]), LAMBDA char_size :
        IF r.pos + char_size > r.len
        THEN Refill(r, char_size)
        ELSE Decode(r, char_size))

load_char(r) ==
    IF r.pos >= r.len
    THEN With(SrcRead(r.src, DEFAULT_BUF_SIZE), LAMBDA got :
         With([r EXCEPT !.buffer = Put(r.buffer, 0, got.bytes),
                        !.len = got.n, !.src = got.src,
                        !.pos = IF got.n = 0 THEN r.pos ELSE 0], LAMBDA r1 :
            IF got.n = 0 THEN LoadNone(r1) ELSE LoadAt(r1)))
    ELSE LoadAt(r)

\* a slip next_char could make: the line is counted on the newline itself
AdvanceEagerLine(r, c, w) ==
    LET col1 == IF r.col # NoneV THEN r.col + 1 ELSE 0
        pos1 == IF r.char_pos # NoneV THEN r.char_pos + 1 ELSE 0
    IN  [r EXCEPT !.pos = r.pos + w,
                  !.char_pos = pos1,
                  !.col = IF c = NL THEN 0 ELSE col1,
                  !.line = IF c = NL THEN r.line + 1 ELSE r.line,
                  !.lines = IF c = NL THEN Append(r.lines, pos1) ELSE r.lines,
                  !.was_newline = (c = NL)]

\* the bookkeeping of next_char once load_char has given a character
Advance(r, c, w) ==
    LET col1 == IF r.col # NoneV THEN r.col + 1 ELSE 0
        pos1 == IF r.char_pos # NoneV THEN r.char_pos + 1 ELSE 0
    IN  [r EXCEPT !.pos = r.pos + w,
                  !.char_pos = pos1,
                  !.col = IF r.was_newline THEN 0 ELSE col1,
                  !.line = IF r.was_newline THEN r.line + 1 ELSE r.line,
                  !.lines = IF r.was_newline THEN Append(r.lines, pos1) ELSE r.lines,
                  !.was_newline = (c = NL)]

next_char(r) ==
    With(load_char(r), LAMBDA cw :
        IF cw.res = "some"
        THEN [rd |-> Advance(cw.rd, cw.c, cw.w), res |-> "some", c |-> cw.c]
        ELSE [rd |-> cw.rd, res |-> cw.res, c |-> NoneV])

peek_char(r) ==
    With(load_char(r), LAMBDA cw : [rd |-> cw.rd, res |-> cw.res, c |-> cw.c])

col(r) == r.col
peek_col(r) == IF r.was_newline THEN 0 ELSE IF r.col # NoneV THEN r.col + 1 ELSE 0
line(r) == r.line
peek_line(r) == IF r.was_newline THEN r.line + 1 ELSE r.line
pos(r) == r.char_pos
peek_pos(r) == IF r.char_pos # NoneV THEN r.char_pos + 1 ELSE 0
lines_consume(r) == r.lines

(***************************************************************************)
(* Lexer  (src/tokenizer.rs).  The character classes are those of Rust's   *)
(* char methods, given here for the code points below 256 and for U+4E2D, *)
(* and false for the others.                                               *)
(***************************************************************************)
is_whitespace(c) == c \in {9, 10, 11, 12, 13, 32, 133, 160}
is_ascii_digit(c) == c >= 48 /\ c <= 57
is_ascii_hexdigit(c) ==
    is_ascii_digit(c) \/ (c >= 65 /\ c <= 70) \/ (c >= 97 /\ c <= 102)
is_numeric(c) == is_ascii_digit(c) \/ c \in {178, 179, 185, 188, 189, 190}
is_alphabetic(c) ==
    \/ (c >= 65 /\ c <= 90) \/ (c >= 97 /\ c <= 122)
    \/ c \in {170, 181, 186}
    \/ (c >= 192 /\ c <= 255 /\ c # 215 /\ c # 247)
    \/ c = 20013
is_alphanumeric(c) == is_alphabetic(c) \/ is_numeric(c)
to_lowercase(c) ==
    IF (c >= 65 /\ c <= 90) \/ (c >= 192 /\ c <= 222 /\ c # 215) THEN c + 32 ELSE c

Lower(text) == [i \in 1..Len(text) |-> to_lowercase(text[i])]

\* "ld", "st", "jp"
INSTRUCTIONS == {<<108, 100>>, <<115, 116>>, <<106, 112>>}
\* "sub"
LABEL_SPECIFIERS == {<<115, 117, 98>>}
\* "pc", "sp", "a", "b", "c", "d", "e", "f", "h", "l", "ix", "iy", "i", "r"
REGISTERS ==
    {<<112, 99>>, <<115, 112>>, <<97>>, <<98>>, <<99>>, <<100>>, <<101>>, <<102>>,
     <<104>>, <<108>>, <<105, 120>>, <<105, 121>>, <<105>>, <<114>>}
\* "def", "rom"
DATA_DECLARATIONS == {<<100, 101, 102>>, <<114, 111, 109>>}

\* the try_tokenize_single_char! lines of tokenize, in their order
SingleChars ==
    <<[c |-> 10,  ty |-> "NewLine"],      [c |-> 123, ty |-> "OpeningCurly"],
      [c |-> 125, ty |-> "ClosingCurly"], [c |-> 42,  ty |-> "Star"],
      [c |-> 38,  ty |-> "Ampersand"],    [c |-> 44,  ty |-> "Comma"],
      [c |-> 61,  ty |-> "Equals"],       [c |-> 64,  ty |-> "At"],
      [c |-> 40,  ty |-> "OpeningParen"], [c |-> 41,  ty |-> "ClosingParen"],
      [c |-> 58,  ty |-> "Colon"]>>

Span(p0, p1, l0, l1, c0, c1) == [pos |-> <<p0, p1>>, line |-> <<l0, l1>>, col |-> <<c0, c1>>]

Token(ty, span) == [ty |-> ty, span |-> span]

NoTok == [ty |-> "none"]

LexOut(r, res, tok) == [rd |-> r, res |-> res, tok |-> tok]

\* the span from a recorded start to the character the reader is on
SpanTo(start, r) ==
    Span(start[1], pos(r) + 1, start[2], line(r) + 1, start[3], col(r) + 1)

Here(r) == <<pos(r), line(r), col(r)>>
PeekHere(r) == <<peek_pos(r), peek_line(r), peek_col(r)>>

\* a slip the span code could make: the current position where the next
\* one is meant
StaleHere(r) == <<peek_pos(r), line(r), peek_col(r)>>

\* the start a read_ident or read_unidentifiable span is given
SpanStart(r) == PeekHere(r)

is_identifier_char(c, first) ==
    is_alphanumeric(c) \/ c = 95 \/ (~first /\ is_numeric(c))

\* the loop conditions of read_unidentifiable, read_ident, read_hex_literal
\* and read_dec_literal
Keep(kind, c) ==
    CASE kind = "unidentifiable" -> ~is_whitespace(c)
      [] kind = "ident" -> is_identifier_char(c, FALSE)
      [] kind = "hex" -> is_ascii_hexdigit(c)
      [] kind = "dec" -> is_ascii_digit(c)

\* while let Some(c) = reader.peek_char()? { if !keep(c) { break; } text.push(c);
\* reader.next_char()?; }
RECURSIVE ConsumeWhile(_, _, _)
ConsumeWhile(r, kind, text) ==
    With(peek_char(r), LAMBDA p :
        IF p.res = "err" THEN [rd |-> p.rd, res |-> "err", text |-> text]
        ELSE IF p.res = "none" \/ ~Keep(kind, p.c)
        THEN [rd |-> p.rd, res |-> "ok", text |-> text]
        ELSE With(next_char(p.rd), LAMBDA n :
                IF n.res = "err" THEN [rd |-> n.rd, res |-> "err", text |-> text]
                ELSE ConsumeWhile(n.rd, kind, Append(text, p.c))))

try_tokenize_single_char(r, target, ty) ==
    With(peek_char(r), LAMBDA p :
        IF p.res = "err" THEN LexOut(p.rd, "err", NoTok)
        ELSE IF p.res = "some" /\ p.c = target
        THEN With(next_char(p.rd), LAMBDA n :
                IF n.res = "err" THEN LexOut(n.rd, "err", NoTok)
                ELSE LexOut(n.rd, "ok", Token(ty, SpanTo(Here(n.rd), n.rd))))
        ELSE LexOut(p.rd, "ok", NoTok))

read_unidentifiable(r) ==
    With(ConsumeWhile(r, "unidentifiable", <<>>), LAMBDA w :
        IF w.res = "err" THEN LexOut(w.rd, "err", NoTok)
        ELSE LexOut(w.rd, "ok", Token("Error", SpanTo(SpanStart(r), w.rd))))

KeywordType(text) ==
    IF text \in INSTRUCTIONS THEN "Instruction"
    ELSE IF text \in LABEL_SPECIFIERS THEN "LabelSpecifier"
    ELSE IF text \in REGISTERS THEN "Register"
    ELSE IF text \in DATA_DECLARATIONS THEN "DataDeclaration"
    ELSE "Identifier"

\* read_ident and the classification of its text in tokenize
read_ident(r) ==
    With(next_char(r), LAMBDA first :
        IF first.res = "err" THEN LexOut(first.rd, "err", NoTok)
        ELSE With(ConsumeWhile(first.rd, "ident", <<first.c>>), LAMBDA w :
                IF w.res = "err" THEN LexOut(w.rd, "err", NoTok)
                ELSE LexOut(w.rd, "ok",
                            Token(KeywordType(Lower(w.text)), SpanTo(SpanStart(r), w.rd)))))

\* read_hex_literal ("hex", HexNumber) and read_dec_literal ("dec", DecNumber)
read_literal_token(r, kind, ty) ==
    With(next_char(r), LAMBDA first :
        IF first.res = "err" THEN LexOut(first.rd, "err", NoTok)
        ELSE With(ConsumeWhile(first.rd, kind, <<>>), LAMBDA w :
                IF w.res = "err" THEN LexOut(w.rd, "err", NoTok)
                ELSE LexOut(w.rd, "ok", Token(ty, SpanTo(Here(first.rd), w.rd)))))

\* the `/` branch of tokenize
read_slash(r) ==
    With(next_char(r), LAMBDA first :
        IF first.res = "err" THEN LexOut(first.rd, "err", NoTok)
        ELSE With(next_char(first.rd), LAMBDA nxt :
                IF nxt.res = "err" THEN LexOut(nxt.rd, "err", NoTok)
                ELSE LexOut(nxt.rd, "ok",
                            Token(IF nxt.res = "some" /\ nxt.c = 47
                                  THEN "CommentLine" ELSE "Error",
                                  SpanTo(Here(first.rd), nxt.rd)))))

RECURSIVE TrySingleChars(_, _)
TrySingleChars(r, i) ==
    IF i > Len(SingleChars) THEN LexOut(r, "ok", NoTok)
    ELSE With(try_tokenize_single_char(r, SingleChars[i].c, SingleChars[i].ty), LAMBDA t :
            IF t.res = "err" \/ t.tok # NoTok THEN t ELSE TrySingleChars(t.rd, i + 1))

\* one iteration of the loop of tokenize: res is "done" when the loop ends,
\* "err" when a read fails, else "ok" with the token pushed (NoTok if none)
LexIter(r) ==
    With(peek_char(r), LAMBDA p :
        IF p.res = "err" THEN LexOut(p.rd, "err", NoTok)
        ELSE IF p.res = "none" THEN LexOut(p.rd, "done", NoTok)
        ELSE With(TrySingleChars(p.rd, 1), LAMBDA single :
                IF single.res = "err" \/ single.tok # NoTok THEN single
                ELSE IF is_whitespace(p.c)
                THEN With(next_char(single.rd), LAMBDA n :
                        LexOut(n.rd, IF n.res = "err" THEN "err" ELSE "ok", NoTok))
                ELSE IF p.c = 47 THEN read_slash(single.rd)
                ELSE IF p.c = 36 THEN read_literal_token(single.rd, "hex", "HexNumber")
                ELSE IF is_numeric(p.c) THEN read_literal_token(single.rd, "dec", "DecNumber")
                ELSE IF is_alphabetic(p.c) THEN read_ident(single.rd)
                ELSE read_unidentifiable(single.rd)))

\* tokenize on a reader: the tokens, or "err"
RECURSIVE TokenizeFrom(_, _)
TokenizeFrom(r, acc) ==
    With(LexIter(r), LAMBDA it :
        IF it.res = "err" THEN [res |-> "err", tokens |-> acc, lines |-> <<>>]
        ELSE IF it.res = "done"
        THEN [res |-> "ok", tokens |-> acc, lines |-> lines_consume(it.rd)]
        ELSE TokenizeFrom(it.rd, IF it.tok = NoTok THEN acc ELSE Append(acc, it.tok)))

tokenize(src) == TokenizeFrom(new(src), <<>>)

(***************************************************************************)
(* Compiler: token helpers  (src/compiler/impl_helper.rs, src/lib.rs).     *)
(* A Compiler is a record of the struct's fields; `rem` is the number of   *)
(* tokens already dropped from remaining_tokens.  `panicked` is set when a *)
(* panic unwinds compile and `overflow_checks` says whether the build      *)
(* checks integer overflow.  `resets` and `blocks` are history: what every *)
(* error recovery dropped and how every `sub` block finished.              *)
(***************************************************************************)
DefaultSpan == Span(0, 0, 0, 0, 0, 0)

Compiler(text, tokens, overflow_checks) ==
    [text |-> text, tokens |-> tokens, rem |-> 0, latest_span |-> DefaultSpan,
     errors |-> <<>>, address |-> 0, allocated_areas |-> <<>>,
     write_queue |-> <<>>, resolution_queue |-> <<>>,
     overflow_checks |-> overflow_checks,
     panicked |-> FALSE, resets |-> <<>>, blocks |-> <<>>]

CompileError(message, span) == [message |-> message, span |-> span]

\* results of the parser's fallible helpers: st is "ok" (with the value v),
\* "err" (with the CompileError e; `at` is the number of tokens that stood
\* before the token the error was found at) or "panic"
Ok(c, v) == [c |-> c, st |-> "ok", v |-> v]
Err(c, e, at) == [c |-> c, st |-> "err", e |-> e, at |-> at]
Panicked(c) == [c |-> [c EXCEPT !.panicked = TRUE], st |-> "panic"]

Remaining(c) == Len(c.tokens) - c.rem
First(c) == c.tokens[c.rem + 1]

\* &contents[self.pos.clone()]: the index is a byte index, and has to lie on
\* character boundaries of the text
IsCharBoundary(text, i) ==
    i = 0 \/ i = Len(text) \/ (i < Len(text) /\ ~(text[i + 1] >= 128 /\ text[i + 1] <= 191))
SliceOk(text, span) ==
    /\ span.pos[1] <= span.pos[2] /\ span.pos[2] <= Len(text)
    /\ IsCharBoundary(text, span.pos[1]) /\ IsCharBoundary(text, span.pos[2])
slice(span, text) == SubSeq(text, span.pos[1] + 1, span.pos[2])

skip(c) ==
    IF Remaining(c) = 0 THEN [c EXCEPT !.panicked = TRUE]
    ELSE [c EXCEPT !.latest_span = First(c).span, !.rem = c.rem + 1]

RECURSIVE SkipToNewLine(_)
SkipToNewLine(c) ==
    IF Remaining(c) > 0 /\ First(c).ty # "NewLine" THEN SkipToNewLine(skip(c)) ELSE c

\* a slip: the newline that ends the comment is taken with it
skip_comment_line_with_newline(c) ==
    IF Remaining(c) > 0 /\ First(c).ty = "CommentLine"
    THEN With(SkipToNewLine(c), LAMBDA c1 : IF Remaining(c1) > 0 THEN skip(c1) ELSE c1)
    ELSE c

skip_comment_line(c) ==
    IF Remaining(c) > 0 /\ First(c).ty = "CommentLine" THEN SkipToNewLine(c) ELSE c

peek(c) ==
    With(skip_comment_line(c), LAMBDA c1 :
        [c |-> c1, some |-> Remaining(c1) > 0,
         tok |-> IF Remaining(c1) > 0 THEN First(c1) ELSE NoTok])

\* next: the token (if any) is taken, then skip() is called whether or not
\* there was one, and skip() indexes remaining_tokens[0]
next(c) ==
    With(skip_comment_line(c), LAMBDA c1 :
        IF Remaining(c1) > 0
        THEN [c |-> skip([c1 EXCEPT !.latest_span = First(c1).span]),
              some |-> TRUE, tok |-> First(c1)]
        ELSE [c |-> skip(c1), some |-> FALSE, tok |-> NoTok])

RECURSIVE skip_line_sep(_)
skip_line_sep(c) ==
    With(peek(c), LAMBDA p :
        IF p.some /\ p.tok.ty = "NewLine" THEN skip_line_sep(skip(p.c)) ELSE p.c)

RECURSIVE NextResetLoop(_)
NextResetLoop(c) ==
    With(peek(c), LAMBDA p :
        IF p.some /\ p.tok.ty # "NewLine" THEN NextResetLoop(skip(p.c)) ELSE p.c)

\* a slip next_reset could make: the newline is left for the caller
next_reset_keep_newline(c) == NextResetLoop(c)

\* a slip: the recovery also drops the line after the one in error
next_reset_two_lines(c) == skip_line_sep(NextResetLoop(skip_line_sep(NextResetLoop(c))))

\* a slip: the recovery drops nothing
next_reset_stay(c) == c

next_reset(c) == skip_line_sep(NextResetLoop(c))

\* self.errors.push(e); self.next_reset(); -- with the history of what the
\* recovery dropped: tokens at+1 .. rem
Fail(c, e, at) ==
    With(next_reset([c EXCEPT !.errors = Append(@, e)]), LAMBDA c1 :
        [c1 EXCEPT !.resets = Append(@, [from |-> at, to |-> c1.rem])])

ExpectedEOF(c) ==
    CompileError(<<"Expected identifier, found EOF">>, c.latest_span)

peek_token_with_type(c, target) ==
    With(peek(c), LAMBDA p :
        IF ~p.some THEN Err(p.c, ExpectedEOF(p.c), p.c.rem)
        ELSE With([p.c EXCEPT !.latest_span = p.tok.span], LAMBDA c1 :
                IF p.tok.ty # target
                THEN Err(c1, CompileError(<<"Expected", target, "found", p.tok.ty>>,
                                          p.tok.span), c1.rem)
                ELSE Ok(c1, p.tok)))

read_token_with_type(c, target) ==
    With(next(c), LAMBDA n :
        IF n.c.panicked THEN Panicked(n.c)
        ELSE IF ~n.some THEN Err(n.c, ExpectedEOF(n.c), n.c.rem)
        ELSE With([n.c EXCEPT !.latest_span = n.tok.span], LAMBDA c1 :
                IF n.tok.ty # target
                THEN Err(c1, CompileError(<<"Expected", target, "found", n.tok.ty>>,
                                          n.tok.span), c1.rem - 1)
                ELSE Ok(c1, n.tok)))

(***************************************************************************)
(* Compiler: typed reads  (src/compiler/impl_read_tokens.rs).              *)
(***************************************************************************)
\* the text of a token, or a panic when the slice is no str slice
Sliced(r) ==
    IF r.st # "ok" THEN r
    ELSE IF ~SliceOk(r.c.text, r.v.span) THEN Panicked(r.c)
    ELSE Ok(r.c, slice(r.v.span, r.c.text))

compiler_read_ident(c) == Sliced(read_token_with_type(c, "Identifier"))
peek_ident(c) == Sliced(peek_token_with_type(c, "Identifier"))
read_instruction(c) == Sliced(read_token_with_type(c, "Instruction"))

ShortRegister(name) == [kind |-> "Short", name |-> name]
LongRegister(name) == [kind |-> "Long", name |-> name]

\* the match of peek_register: "A" .. "R", "AF" .. "IY"
RegisterNames ==
    <<[s |-> <<65>>, r |-> ShortRegister("A")], [s |-> <<66>>, r |-> ShortRegister("B")],
      [s |-> <<67>>, r |-> ShortRegister("C")], [s |-> <<68>>, r |-> ShortRegister("D")],
      [s |-> <<69>>, r |-> ShortRegister("E")], [s |-> <<70>>, r |-> ShortRegister("F")],
      [s |-> <<72>>, r |-> ShortRegister("H")], [s |-> <<76>>, r |-> ShortRegister("L")],
      [s |-> <<73>>, r |-> ShortRegister("I")], [s |-> <<82>>, r |-> ShortRegister("R")],
      [s |-> <<65, 70>>, r |-> LongRegister("AF")], [s |-> <<66, 67>>, r |-> LongRegister("BC")],
      [s |-> <<68, 69>>, r |-> LongRegister("DE")], [s |-> <<72, 76>>, r |-> LongRegister("HL")],
      [s |-> <<80, 67>>, r |-> LongRegister("PC")], [s |-> <<83, 80>>, r |-> LongRegister("SP")],
      [s |-> <<73, 88>>, r |-> LongRegister("IX")], [s |-> <<73, 89>>, r |-> LongRegister("IY")]>>

peek_register(c) ==
    With(Sliced(peek_token_with_type(c, "Register")), LAMBDA t :
        IF t.st # "ok" THEN t
        ELSE IF \E i \in 1..Len(RegisterNames) : RegisterNames[i].s = t.v
        THEN Ok(t.c, RegisterNames[CHOOSE i \in 1..Len(RegisterNames) :
                                       RegisterNames[i].s = t.v].r)
        ELSE Panicked(t.c))

read_register(c) ==
    With(peek_register(c), LAMBDA r :
        IF r.st # "ok" THEN r ELSE Ok(skip(r.c), r.v))

\* i32::from_str_radix: the value, or -1 for a text it rejects (empty, a
\* character that is no digit of the radix, or a value above i32::MAX)
DigitValue(b, radix) ==
    IF b >= 48 /\ b <= 57 THEN b - 48
    ELSE IF radix = 16 /\ b >= 97 /\ b <= 102 THEN b - 87
    ELSE IF radix = 16 /\ b >= 65 /\ b <= 70 THEN b - 55
    ELSE -1

RECURSIVE FromDigits(_, _, _)
FromDigits(text, radix, acc) ==
    IF text = <<>> THEN acc
    ELSE IF DigitValue(Head(text), radix) < 0 THEN -1
    ELSE IF acc * radix + DigitValue(Head(text), radix) > 2147483647 THEN -1
    ELSE FromDigits(Tail(text), radix, acc * radix + DigitValue(Head(text), radix))

from_str_radix(text, radix) == IF text = <<>> THEN -1 ELSE FromDigits(text, radix, 0)

\* the parse of peek_literal: a hex literal without its `$`, base 16, or a
\* decimal one, base 10
LiteralValue(ty, text) ==
    IF ty = "HexNumber" THEN from_str_radix(Tail(text), 16) ELSE from_str_radix(text, 10)

peek_literal(c) ==
    With(peek(c), LAMBDA p :
        IF ~p.some THEN Err(p.c, ExpectedEOF(p.c), p.c.rem)
        ELSE With([p.c EXCEPT !.latest_span = p.tok.span], LAMBDA c1 :
                IF p.tok.ty \notin {"HexNumber", "DecNumber"}
                THEN Err(c1, CompileError(<<"Expected a literal, found", p.tok.ty>>,
                                          p.tok.span), c1.rem)
                ELSE IF ~SliceOk(c1.text, p.tok.span)
                        \/ (p.tok.ty = "HexNumber" /\ p.tok.span.pos[1] = p.tok.span.pos[2])
                THEN Panicked(c1)
                ELSE With(LiteralValue(p.tok.ty, slice(p.tok.span, c1.text)), LAMBDA value :
                        IF value < 0
                        THEN Err(c1, CompileError(<<"ParseIntError">>, p.tok.span), c1.rem)
                        ELSE IF value > 65535
                        THEN Err(c1, CompileError(<<"Number", value,
                                      "is too big to fit into the A register">>,
                                      p.tok.span), c1.rem)
                        ELSE Ok(c1, value))))

read_literal(c) ==
    With(peek_literal(c), LAMBDA r :
        IF r.st # "ok" THEN r ELSE Ok(skip(r.c), r.v))

(***************************************************************************)
(* Compiler: queues and areas  (src/compiler/mod.rs).                      *)
(***************************************************************************)
\* Compiler::write: the cursor moves by the N bytes the closure will give.
\* `self.address += N` on a u16 panics in a build with overflow checks and
\* wraps in one without.  `at` keeps the cursor the write was scheduled at.
write(c, n, f) ==
    IF c.address + n > 65535 /\ c.overflow_checks
    THEN [c EXCEPT !.panicked = TRUE]
    ELSE [c EXCEPT !.address = (c.address + n) % 65536,
                   !.write_queue = Append(@, [kind |-> "write", n |-> n, f |-> f,
                                              at |-> c.address])]

\* a slip: the origin move is scheduled but the parser's cursor stays
set_address_stay(c, new_address) ==
    [c EXCEPT !.write_queue = Append(@, [kind |-> "set_address", addr |-> new_address])]

set_address(c, new_address) ==
    [c EXCEPT !.address = new_address,
              !.write_queue = Append(@, [kind |-> "set_address", addr |-> new_address])]

\* next_write is the place in the write queue of the write scheduled next
resolution(c, f) ==
    [c EXCEPT !.resolution_queue =
        Append(@, [name |-> f.name, value |-> f.value, cursor |-> f.cursor,
                   next_write |-> Len(c.write_queue) + 1])]

\* a slip the test could make: the end of the new range is not looked at
overlaps_start_only(new_range, range) ==
    new_range[1] >= range[1] /\ new_range[1] < range[2]

\* the test of reserve_area
overlaps(new_range, range) ==
    \/ (new_range[1] >= range[1] /\ new_range[1] < range[2])
    \/ (new_range[2] > range[1] /\ new_range[2] <= range[2])

\* a slip: a range that overlaps is recorded all the same
reserve_area_recording(c, name, new_range) ==
    With({i \in 1..Len(c.allocated_areas) :
            overlaps(new_range, c.allocated_areas[i].range)}, LAMBDA hits :
        [c |-> [c EXCEPT !.allocated_areas =
                            Append(@, [name |-> name, range |-> new_range])],
         some |-> hits # {},
         existing |-> IF hits # {}
                      THEN c.allocated_areas[CHOOSE i \in hits : \A j \in hits : i <= j].name
                      ELSE <<>>])

reserve_area(c, name, new_range) ==
    With({i \in 1..Len(c.allocated_areas) :
            overlaps(new_range, c.allocated_areas[i].range)}, LAMBDA hits :
        IF hits # {}
        THEN [c |-> c, some |-> TRUE,
              existing |-> c.allocated_areas[CHOOSE i \in hits : \A j \in hits : i <= j].name]
        ELSE [c |-> [c EXCEPT !.allocated_areas =
                                    Append(@, [name |-> name, range |-> new_range])],
              some |-> FALSE, existing |-> <<>>])

(***************************************************************************)
(* Compiler: sections  (src/compiler/impl_sections.rs).                    *)
(***************************************************************************)
\* try_return!: on Err the error is pushed, next_reset is called and the
\* function returns; a panic unwinds
Try(r, Cont(_)) ==
    IF r.st = "ok" THEN Cont(r)
    ELSE IF r.st = "panic" THEN r.c
    ELSE Fail(r.c, r.e, r.at)

\* the optional `*` after a literal or an identifier
StarSuffix(c) ==
    With(peek(c), LAMBDA p :
        IF p.some /\ p.tok.ty = "Star"
        THEN [c |-> skip(p.c), is_address |-> TRUE]
        ELSE [c |-> p.c, is_address |-> FALSE])

read_data_target(c) ==
    With(peek_register(c), LAMBDA pr :
        IF pr.st = "panic" THEN pr
        ELSE IF pr.st = "ok"
        THEN With(read_register(pr.c), LAMBDA rr :
                IF rr.st # "ok" THEN rr ELSE Ok(rr.c, [kind |-> "Register", reg |-> rr.v]))
        ELSE With(peek_literal(pr.c), LAMBDA pl :
                IF pl.st = "panic" THEN pl
                ELSE IF pl.st = "ok"
                THEN With(read_literal(pl.c), LAMBDA rl :
                        IF rl.st # "ok" THEN rl
                        ELSE With(StarSuffix(rl.c), LAMBDA s :
                                Ok(s.c, [kind |-> IF s.is_address THEN "Address"
                                                  ELSE "Immediate",
                                         v |-> rl.v])))
                ELSE With(peek_ident(pl.c), LAMBDA pi :
                        IF pi.st = "panic" THEN pi
                        ELSE IF pi.st = "ok"
                        THEN With(compiler_read_ident(pi.c), LAMBDA ri :
                                IF ri.st # "ok" THEN ri
                                ELSE With(StarSuffix(ri.c), LAMBDA s :
                                        Ok(s.c, [kind |-> IF s.is_address
                                                          THEN "IdentifierAddress"
                                                          ELSE "IdentifierImmediate",
                                                 name |-> ri.v])))
                        ELSE Err(pi.c, CompileError(<<"Invalid data target">>,
                                                    pi.c.latest_span), pi.c.rem))))

IsShort(t) == t.kind = "Register" /\ t.reg.kind = "Short"
IsShortA(t) == IsShort(t) /\ t.reg.name = "A"

\* the span read_ld gives the error for an operand combination it does not know
LdErrorSpan(start_span, end_span) ==
    [pos |-> <<start_span.pos[2], end_span.pos[2] + 1>>,
     col |-> <<start_span.col[2], end_span.col[2] + 1>>,
     line |-> <<start_span.line[2], end_span.line[2] + 1>>]

\* a slip: an immediate that does not fit is cut to its low 8 bits
LdEncodeTruncating(c, start_span, to, from, from_span) ==
    IF IsShort(to) /\ from.kind = "Immediate"
    THEN write(c, 2, [op |-> "ld_imm", reg |-> to.reg.name, imm |-> from.v % 256])
    ELSE Fail(c, CompileError(<<"'ld' isn't implemented for", to, from>>,
                              LdErrorSpan(start_span, c.latest_span)), c.rem)

\* the match of read_ld
LdEncode(c, start_span, to, from, from_span) ==
    IF IsShort(to) /\ from.kind = "Immediate"
    THEN IF from.v > 255
         THEN Fail(c, CompileError(<<"Number", from.v, "is too big to fit into the",
                                     to.reg.name, "register">>, from_span), c.rem)
         ELSE write(c, 2, [op |-> "ld_imm", reg |-> to.reg.name, imm |-> from.v])
    ELSE IF to.kind = "Address" /\ IsShortA(from)
    THEN write(c, 3, [op |-> "bytes", data |-> <<50, to.v % 256, to.v \div 256>>])
    ELSE IF to.kind = "IdentifierAddress" /\ IsShortA(from)
    THEN write(c, 3, [op |-> "opcode_sym", opcode |-> 50, ident |-> to.name])
    ELSE Fail(c, CompileError(<<"'ld' isn't implemented for", to, from>>,
                              LdErrorSpan(start_span, c.latest_span)), c.rem)

read_ld(c) ==
    Try(read_data_target(c), LAMBDA to :
        Try(read_token_with_type(to.c, "Comma"), LAMBDA comma :
            Try(read_data_target(comma.c), LAMBDA from :
                LdEncode(from.c, c.latest_span, to.v, from.v, from.c.latest_span))))

read_jp(c) ==
    Try(compiler_read_ident(c), LAMBDA target :
        write(target.c, 3, [op |-> "opcode_sym", opcode |-> 195, ident |-> target.v]))

read_instruction_line(c) ==
    Try(read_instruction(c), LAMBDA inst :
        IF inst.v = <<108, 100>> THEN read_ld(inst.c)
        ELSE IF inst.v = <<106, 112>> THEN read_jp(inst.c)
        ELSE Fail(inst.c, CompileError(<<"Unable to find mnemonic", inst.v>>,
                                       inst.c.latest_span), inst.c.rem))

NoFrame == [open |-> FALSE]

\* a slip: the span of the last token read, the closing brace
OverlapErrorLatest(c, name, existing, name_span) ==
    CompileError(<<"Subroutine", name, "overlaps with", existing>>, c.latest_span)

\* the error read_label_block records for a block reserve_area refuses
OverlapError(c, name, existing, name_span) ==
    CompileError(<<"Subroutine", name, "overlaps with", existing>>, name_span)

\* the end of read_label_block, once read_block has returned
finish_block(c, fr) ==
    With(reserve_area(c, fr.name, <<fr.start_address, c.address>>), LAMBDA ra :
    With(IF ra.some
         THEN [ra.c EXCEPT !.errors =
                    Append(@, OverlapError(c, fr.name, ra.existing, fr.name_span))]
         ELSE ra.c, LAMBDA c1 :
        [c1 EXCEPT !.blocks = Append(@, [name |-> fr.name, name_span |-> fr.name_span,
                                         range |-> <<fr.start_address, c.address>>,
                                         areas |-> c.allocated_areas,
                                         reported |-> ra.some, existing |-> ra.existing,
                                         errs_before |-> Len(c.errors),
                                         errs_after |-> Len(c1.errors)])]))

\* read_label_block from the resolution it queues to the opening brace
OpenBlock(c, fr) ==
    With(read_token_with_type(
            skip_line_sep(resolution(c, [name |-> fr.name, value |-> c.address,
                                         cursor |-> TRUE])),
            "OpeningCurly"), LAMBDA oc :
        IF oc.st = "panic" THEN [c |-> oc.c, frame |-> NoFrame]
        ELSE IF oc.st = "err"
        THEN [c |-> finish_block(Fail(oc.c, oc.e, oc.at), fr), frame |-> NoFrame]
        ELSE [c |-> skip_line_sep(oc.c), frame |-> fr])

\* read_label_block up to the loop of read_block: the frame is open when the
\* loop has been entered
read_label_block(c) ==
    With(next(c), LAMBDA sp :
        IF ~SliceOk(sp.c.text, sp.tok.span)
        THEN [c |-> [sp.c EXCEPT !.panicked = TRUE], frame |-> NoFrame]
        ELSE IF slice(sp.tok.span, sp.c.text) # <<115, 117, 98>>
        THEN [c |-> Fail(sp.c, CompileError(<<"Unimplemented specifier type",
                                              slice(sp.tok.span, sp.c.text)>>,
                                            sp.tok.span), sp.c.rem),
              frame |-> NoFrame]
        ELSE With(compiler_read_ident(sp.c), LAMBDA rn :
                IF rn.st # "ok"
                THEN [c |-> Try(rn, LAMBDA r : r.c), frame |-> NoFrame]
                ELSE OpenBlock(rn.c, [open |-> TRUE, name |-> rn.v,
                                      name_span |-> rn.c.latest_span,
                                      start_address |-> rn.c.address])))

\* one turn of the loop of read_block; the block is finished when the loop ends
read_block_iter(c, fr) ==
    With(peek(c), LAMBDA p :
        IF ~p.some THEN [c |-> finish_block(p.c, fr), frame |-> NoFrame]
        ELSE IF p.tok.ty = "ClosingCurly"
        THEN [c |-> finish_block(skip(p.c), fr), frame |-> NoFrame]
        ELSE With(read_instruction_line(p.c), LAMBDA c1 :
                [c |-> IF c1.panicked THEN c1 ELSE skip_line_sep(c1), frame |-> fr]))

DeclDef(c) ==
    Try(compiler_read_ident(c), LAMBDA name :
        Try(read_token_with_type(name.c, "Equals"), LAMBDA eq :
            Try(read_literal(eq.c), LAMBDA value :
                resolution(value.c, [name |-> name.v, value |-> value.v, cursor |-> FALSE]))))

DeclRom(c, tok) ==
    Try(compiler_read_ident(c), LAMBDA name :
        Try(read_token_with_type(name.c, "Colon"), LAMBDA colon :
            Try(read_literal(colon.c), LAMBDA size :
                Try(read_token_with_type(size.c, "Equals"), LAMBDA eq :
                    Try(compiler_read_ident(eq.c), LAMBDA value_ident :
                        With(resolution(value_ident.c,
                                [name |-> name.v, value |-> value_ident.c.address,
                                 cursor |-> TRUE]),
                             LAMBDA c1 :
                            IF size.v = 2
                            THEN write(c1, 2, [op |-> "sym", ident |-> value_ident.v])
                            ELSE Fail(c1, CompileError(<<"Invalid data size", size.v,
                                                         "expected 2">>, tok.span),
                                      c1.rem)))))))

read_data_decl(c) ==
    With(next(c), LAMBDA tok :
        IF ~SliceOk(tok.c.text, tok.tok.span) THEN [tok.c EXCEPT !.panicked = TRUE]
        ELSE IF slice(tok.tok.span, tok.c.text) = <<100, 101, 102>> THEN DeclDef(tok.c)
        ELSE IF slice(tok.tok.span, tok.c.text) = <<114, 111, 109>>
        THEN DeclRom(tok.c, tok.tok)
        ELSE Fail(tok.c, CompileError(<<"Unimplemented data declaration type",
                                        slice(tok.tok.span, tok.c.text)>>, tok.tok.span),
                  tok.c.rem))

read_top_level_pragma(c) ==
    With(read_token_with_type(c, "At"), LAMBDA at :
        Try(compiler_read_ident(at.c), LAMBDA directive :
            IF directive.v = <<111, 114, 105, 103, 105, 110>>
            THEN Try(read_token_with_type(directive.c, "OpeningParen"), LAMBDA open :
                     Try(read_literal(open.c), LAMBDA new_address :
                         Try(read_token_with_type(set_address(new_address.c, new_address.v),
                                                  "ClosingParen"),
                             LAMBDA close : close.c)))
            ELSE Fail(directive.c, CompileError(<<"Unknown top level directive",
                                                  directive.v>>, directive.c.latest_span),
                      directive.c.rem)))

\* a slip: an instruction line is taken at top level as it is in a block
compile_remaining_with_lines(c) ==
    With(peek(c), LAMBDA p :
        IF ~p.some THEN [c |-> [p.c EXCEPT !.panicked = TRUE], frame |-> NoFrame]
        ELSE IF p.tok.ty = "LabelSpecifier" THEN read_label_block(p.c)
        ELSE IF p.tok.ty = "DataDeclaration"
        THEN [c |-> read_data_decl(p.c), frame |-> NoFrame]
        ELSE IF p.tok.ty = "At" THEN [c |-> read_top_level_pragma(p.c), frame |-> NoFrame]
        ELSE IF p.tok.ty = "Instruction"
        THEN [c |-> read_instruction_line(p.c), frame |-> NoFrame]
        ELSE [c |-> Fail(p.c, CompileError(<<"Unexpected token", p.tok.ty>>, p.tok.span),
                         p.c.rem),
              frame |-> NoFrame])

compile_remaining(c) ==
    With(peek(c), LAMBDA p :
        IF ~p.some THEN [c |-> [p.c EXCEPT !.panicked = TRUE], frame |-> NoFrame]
        ELSE IF p.tok.ty = "LabelSpecifier" THEN read_label_block(p.c)
        ELSE IF p.tok.ty = "DataDeclaration"
        THEN [c |-> read_data_decl(p.c), frame |-> NoFrame]
        ELSE IF p.tok.ty = "At" THEN [c |-> read_top_level_pragma(p.c), frame |-> NoFrame]
        ELSE [c |-> Fail(p.c, CompileError(<<"Unexpected token", p.tok.ty>>, p.tok.span),
                         p.c.rem),
              frame |-> NoFrame])

(***************************************************************************)
(* CompilerContext  (src/compiler/compiler_context.rs) and the deferred    *)
(* closures that run against it.                                           *)
(***************************************************************************)
NewContext == [address |-> 0, binary |-> <<>>, declarations |-> <<>>]

get(ctx, name) ==
    IF \E i \in 1..Len(ctx.declarations) : ctx.declarations[i].name = name
    THEN [some |-> TRUE,
          v |-> ctx.declarations[CHOOSE i \in 1..Len(ctx.declarations) :
                                    ctx.declarations[i].name = name].value]
    ELSE [some |-> FALSE, v |-> 0]

\* a slip: a name that is already declared gets the new value
set_overwrite(ctx, name, value) ==
    [ctx |-> [ctx EXCEPT !.declarations =
                    SelectSeq(@, LAMBDA d : d.name # name)
                        \o <<[name |-> name, value |-> value]>>],
     panicked |-> FALSE]

\* set: panics on a name that is already declared
set(ctx, name, value) ==
    IF get(ctx, name).some THEN [ctx |-> ctx, panicked |-> TRUE]
    ELSE [ctx |-> [ctx EXCEPT !.declarations = Append(@, [name |-> name, value |-> value])],
          panicked |-> FALSE]

\* a slip: the image is never extended
reserve_min_never(binary, min_length) == binary

reserve_min(binary, min_length) ==
    IF min_length > Len(binary)
    THEN binary \o [i \in 1..(min_length - Len(binary)) |-> 0]
    ELSE binary

ctx_write(ctx, data) ==
    LET end_address == ctx.address + Len(data)
        grown == reserve_min(ctx.binary, end_address)
    IN  [ctx EXCEPT !.binary = [i \in 1..Len(grown) |->
                                    IF i > ctx.address /\ i <= end_address
                                    THEN data[i - ctx.address] ELSE grown[i]],
                    !.address = end_address]

\* a slip: the emitter's cursor lands one byte late
ctx_set_address_late(ctx, new_address) == [ctx EXCEPT !.address = new_address + 1]

ctx_set_address(ctx, new_address) == [ctx EXCEPT !.address = new_address]

\* a slip: a closure whose name is already declared passes for resolved
RunResolutionQuiet(f, ctx) ==
    LET r == set(ctx, f.name, f.value)
    IN  [ctx |-> r.ctx, done |-> TRUE, panicked |-> FALSE]

\* the resolution closures of read_label_block and read_data_decl:
\* ctx.set(&name, value); true
RunResolution(f, ctx) ==
    LET r == set(ctx, f.name, f.value)
    IN  [ctx |-> r.ctx, done |-> TRUE, panicked |-> r.panicked]

\* the opcode match of the `ld r, imm` closure; -1 is unimplemented!()
LdImmOpcode(reg) ==
    CASE reg = "A" -> 62 [] reg = "B" -> 6 [] reg = "C" -> 14 [] reg = "D" -> 22
      [] reg = "E" -> 30 [] reg = "H" -> 38 [] reg = "L" -> 46 [] OTHER -> -1

\* the bytes a write closure gives, or a panic (unwrap of a name that is not
\* in the table, unimplemented!())
ClosureBytes(f, ctx) ==
    CASE f.op = "bytes" -> [some |-> TRUE, data |-> f.data]
      [] f.op = "ld_imm" ->
            IF LdImmOpcode(f.reg) < 0 THEN [some |-> FALSE, data |-> <<>>]
            ELSE [some |-> TRUE, data |-> <<LdImmOpcode(f.reg), f.imm>>]
      [] f.op = "opcode_sym" ->
            LET a == get(ctx, f.ident)
            IN  [some |-> a.some, data |-> <<f.opcode, a.v % 256, a.v \div 256>>]
      [] f.op = "sym" ->
            LET a == get(ctx, f.ident)
            IN  [some |-> a.some, data |-> <<a.v % 256, a.v \div 256>>]

\* one entry of the write queue
RunWrite(w, ctx) ==
    IF w.kind = "set_address"
    THEN [ctx |-> ctx_set_address(ctx, w.addr), panicked |-> FALSE]
    ELSE LET b == ClosureBytes(w.f, ctx)
         IN  IF b.some THEN [ctx |-> ctx_write(ctx, b.data), panicked |-> FALSE]
             ELSE [ctx |-> ctx, panicked |-> TRUE]

\* one sweep of the resolution loop: drain(..).filter(|r| !r(&mut ctx))
RECURSIVE SweepFrom(_, _, _, _)
SweepFrom(queue, ctx, kept, n) ==
    IF queue = <<>> THEN [ctx |-> ctx, queue |-> kept, ran |-> n, panicked |-> FALSE]
    ELSE LET r == RunResolution(Head(queue), ctx)
         IN  IF r.panicked THEN [ctx |-> r.ctx, queue |-> kept, ran |-> n, panicked |-> TRUE]
             ELSE SweepFrom(Tail(queue), r.ctx,
                            IF r.done THEN kept ELSE Append(kept, Head(queue)), n + 1)

UnresolvedError ==
    CompileError(<<"Could not resolve a declaration">>, Span(0, 1, 0, 1, 0, 1))

\* a slip: one error is let through
HasErrorsOffByOne(c) == Len(c.errors) > 1

\* the test compile makes after parsing and after resolving
HasErrors(c) == Len(c.errors) > 0

(***************************************************************************)
(* Source programs: a program is a sequence of the pieces below, each a    *)
(* sequence of words, stretches of source text that end between two        *)
(* tokens.  The tokens of a program are those tokenize gives for its       *)
(* words, moved to where the word stands in the text.                      *)
(***************************************************************************)
\* the stretches of text the pieces are made of
Words ==
    <<
      \* 1: @origin(1) 
      <<64, 111, 114, 105, 103, 105, 110, 40, 49, 41, 32>>,
      \* 2: @origin(0) 
      <<64, 111, 114, 105, 103, 105, 110, 40, 48, 41, 32>>,
      \* 3: sub x 
      <<115, 117, 98, 32, 120, 32>>,
      \* 4: sub y 
      <<115, 117, 98, 32, 121, 32>>,
      \* 5: sub z 
      <<115, 117, 98, 32, 122, 32>>,
      \* 6: { 
      <<123, 32>>,
      \* 7: ld A, 1 
      <<108, 100, 32, 65, 44, 32, 49, 32>>,
      \* 8: }\n
      <<125, 10>>,
      \* 9: {\n
      <<123, 10>>,
      \* 10: ld A\n
      <<108, 100, 32, 65, 10>>,
      \* 11: ld A, B\n
      <<108, 100, 32, 65, 44, 32, 66, 10>>,
      \* 12: jp y\n
      <<106, 112, 32, 121, 10>>,
      \* 13: def y = 1\n
      <<100, 101, 102, 32, 121, 32, 61, 32, 49, 10>>,
      \* 14: def y\n
      <<100, 101, 102, 32, 121, 10>>,
      \* 15: rom x : 
      <<114, 111, 109, 32, 120, 32, 58, 32>>,
      \* 16: 2 = y\n
      <<50, 32, 61, 32, 121, 10>>,
      \* 17: ld y*, A\n
      <<108, 100, 32, 121, 42, 44, 32, 65, 10>>,
      \* 18: ld 
      <<108, 100, 32>>,
      \* 19: , 
      <<44, 32>>,
      \* 20: \n
      <<10>>,
      \* 21: *, A\n
      <<42, 44, 32, 65, 10>>,
      \* 22: A
      <<65>>,
      \* 23: B
      <<66>>,
      \* 24: C
      <<67>>,
      \* 25: D
      <<68>>,
      \* 26: E
      <<69>>,
      \* 27: F
      <<70>>,
      \* 28: H
      <<72>>,
      \* 29: L
      <<76>>,
      \* 30: I
      <<73>>,
      \* 31: R
      <<82>>,
      \* 32: SP
      <<83, 80>>,
      \* 33: 0
      <<48>>,
      \* 34: $FF
      <<36, 70, 70>>,
      \* 35: $100
      <<36, 49, 48, 48>>,
      \* 36: $6000
      <<36, 54, 48, 48, 48>>,
      \* 37: 65535
      <<54, 53, 53, 51, 53>>,
      \* 38: $10000
      <<36, 49, 48, 48, 48, 48>>,
      \* 39: def y = 
      <<100, 101, 102, 32, 121, 32, 61, 32>>,
      \* 40: rom y : 
      <<114, 111, 109, 32, 121, 32, 58, 32>>,
      \* 41: 2 = z\n
      <<50, 32, 61, 32, 122, 10>>,
      \* 42: def z = 
      <<100, 101, 102, 32, 122, 32, 61, 32>>,
      \* 43: @origin(
      <<64, 111, 114, 105, 103, 105, 110, 40>>,
      \* 44: )\n
      <<41, 10>>,
      \* 45: $FFFD
      <<36, 70, 70, 70, 68>>,
      \* 46:  = z\n
      <<32, 61, 32, 122, 10>>,
      \* 47: y
      <<121>>,
      \* 48: *
      <<42>>,
      \* 49: a
      <<97>>,
      \* 50: AF
      <<65, 70>>,
      \* 51: // c\n
      <<47, 47, 32, 99, 10>>,
      \* 52: // c
      <<47, 47, 32, 99>>,
      \* 53: sub
      <<115, 117, 98>>,
      \* 54: @
      <<64>>,
      \* 55: LD
      <<76, 68, 32>>,
      \* 56: SUB x
      <<83, 85, 66, 32, 120, 32>>,
      \* 57: DEF y =
      <<68, 69, 70, 32, 121, 32, 61, 32>>
    >>

Pieces ==
    <<
      \* 1: @origin(1) sub x { ld A, 1 }\n
      <<1, 3, 6, 7, 8>>,
      \* 2: @origin(0) sub y { ld A, 1 ld A, 1 }\n
      <<2, 4, 6, 7, 7, 8>>,
      \* 3: sub z { ld A, 1 }\n
      <<5, 6, 7, 8>>,
      \* 4: sub x {\n
      <<3, 9>>,
      \* 5: }\n
      <<8>>,
      \* 6: ld A\n
      <<10>>,
      \* 7: ld A, B\n
      <<11>>,
      \* 8: jp y\n
      <<12>>,
      \* 9: def y = 1\n
      <<13>>,
      \* 10: def y\n
      <<14>>,
      \* 11: rom x : 2 = y\n
      <<15, 16>>,
      \* 12: ld y*, A\n
      <<17>>
    >>

WordTokens == [i \in 1..Len(Words) |-> tokenize(Cursor(AsBytes(Words[i]))).tokens]

NewlineCount(t) == Cardinality({i \in 1..Len(t) : t[i] = NL})

\* the characters after the last newline of t
TailLen(t) ==
    IF \E i \in 1..Len(t) : t[i] = NL
    THEN Len(t) - (CHOOSE i \in 1..Len(t) : t[i] = NL /\ \A j \in (i + 1)..Len(t) : t[j] # NL)
    ELSE Len(t)

WordShape ==
    [i \in 1..Len(Words) |->
        [chars |-> Len(Words[i]), newlines |-> NewlineCount(Words[i]),
         tail |-> TailLen(Words[i])]]

MoveToken(t, dp, dl, dc) ==
    [t EXCEPT !.span = [pos |-> <<t.span.pos[1] + dp, t.span.pos[2] + dp>>,
                        line |-> <<t.span.line[1] + dl, t.span.line[2] + dl>>,
                        col |-> IF t.span.line[1] = 0
                                THEN <<t.span.col[1] + dc, t.span.col[2] + dc>>
                                ELSE t.span.col]]

RECURSIVE ProgramTokens(_, _, _, _)
ProgramTokens(words, dp, dl, dc) ==
    IF words = <<>> THEN <<>>
    ELSE LET i == Head(words)
             sh == WordShape[i]
         IN  [k \in 1..Len(WordTokens[i]) |-> MoveToken(WordTokens[i][k], dp, dl, dc)]
             \o ProgramTokens(Tail(words), dp + sh.chars, dl + sh.newlines,
                              IF sh.newlines > 0 THEN sh.tail ELSE dc + sh.tail)

\* the words of a program
WordsOf(prog) == Flatten([k \in 1..Len(prog) |-> Pieces[prog[k]]])

ProgramText(prog) == Flatten([k \in 1..Len(WordsOf(prog)) |-> Words[WordsOf(prog)[k]]])

\* the text as the &str compile is given: its UTF-8 bytes
WordBytes == [i \in 1..Len(Words) |-> AsBytes(Words[i])]
ProgramBytes(prog) == Flatten([k \in 1..Len(WordsOf(prog)) |-> WordBytes[WordsOf(prog)[k]]])

\* the text and the UTF-8 bytes of a sequence of words
WordsText(words) == Flatten([k \in 1..Len(words) |-> Words[words[k]]])
WordsBytes(words) == Flatten([k \in 1..Len(words) |-> WordBytes[words[k]]])

\* Instruction programs, as sequences of words.
\* sub x {\n <lines> }\n
Block(lines) == <<3, 9>> \o lines \o <<8>>
\* ld <register>, <literal>\n
LdImm(reg, lit) == <<18, reg, 19, lit, 20>>
\* ld <literal>*, A\n
LdAddr(lit) == <<18, lit, 21>>
\* @origin(<literal>)\n
Origin(lit) == <<43, lit, 44>>
\* the words "A" .. "R" and the register each names
ShortRegisterWords == 22..31
RegisterOfWord(w) == RegisterNames[w - 21].r.name
\* the value of the word of a numeric literal
ValueOfWord(w) ==
    CASE w = 33 -> 0 [] w = 34 -> 255 [] w = 35 -> 256 [] w = 36 -> 24576
      [] w = 37 -> 65535 [] w = 38 -> 65536 [] w = 45 -> 65533
\* where a program starts: at 0, or moved to $FFFD
Origins == {<<>>, Origin(45)}

\* sub x { ld r, v }, at each origin
LdImmPrograms ==
    {o \o Block(LdImm(r, v)) : o \in Origins, r \in ShortRegisterWords,
                                v \in {33, 34, 35, 37}}
\* one instruction line and nothing else
BareLinePrograms == {LdImm(22, 34), LdAddr(36)}
\* sub x { ld n*, A }, at each origin
LdAddrPrograms ==
    {o \o Block(LdAddr(n)) : o \in Origins, n \in {33, 36, 37, 38}}
\* definitions of y: def y = v, rom y : 2 = z with def z = $FF, sub y { ld A, 1 }
SymbolDefs == {<<39, 34, 20>>, <<39, 36, 20>>, <<40, 41, 42, 34, 20>>, <<4, 9, 7, 8>>}
\* uses of y: jp y, ld y*, A, or both, in sub x
SymbolUses == {Block(<<12>>), Block(<<17>>), Block(<<12, 17>>)}
SymbolOrigins == Origins \cup {Origin(36)}
SymbolPrograms ==
    {o \o d \o u : o \in SymbolOrigins, d \in SymbolDefs, u \in SymbolUses}
        \cup {o \o u \o d : o \in SymbolOrigins, d \in SymbolDefs, u \in SymbolUses}
\* sub x { ld A, B <a second line> }, and ld SP, 0 for ld A, B
SecondLines == {<<>>, <<11>>, <<10>>, LdImm(22, 33), LdImm(22, 35)}
BadLdPrograms ==
    {Block(b \o l) : b \in {<<11>>, LdImm(32, 33)}, l \in SecondLines}

\* rom y : <size> = z, with def z = $FF after it: at each origin, at the
\* origin or behind sub x { ld A, 1 }, and at 65535
RomSizes == {<<41>>, <<33, 46>>, <<34, 46>>}
RomPrefixes == {<<>>, <<3, 6, 7, 8>>}
RomLine(size) == <<40>> \o size \o <<42, 34, 20>>
RomPrograms ==
    {o \o p \o RomLine(size) : o \in SymbolOrigins, p \in RomPrefixes, size \in RomSizes}
        \cup {Origin(37) \o RomLine(size) : size \in RomSizes}

\* texts that end in the middle of a construct: `sub`, `@`, `def y = `,
\* `sub x {` with `ld A, `, `sub x `, `@origin(` and `rom y : `
TruncatedPrograms ==
    {<<53>>, <<54>>, <<39>>, <<3, 9, 18, 22, 19>>, <<3>>, <<43>>, <<40>>}

\* keywords and registers in the other letter case: `sub x { ld a, $FF }`,
\* `sub x { LD A, $FF }`, `SUB x { ld A, $FF }` and `DEF y = $FF`
CasePrograms ==
    {<<3, 9, 18, 49, 19, 34, 20, 8>>, <<3, 9, 55, 22, 19, 34, 20, 8>>,
     <<56, 9, 18, 22, 19, 34, 20, 8>>, <<57, 34, 20>>}

AsmPrograms ==
    LdImmPrograms \cup BareLinePrograms \cup LdAddrPrograms \cup SymbolPrograms
        \cup BadLdPrograms \cup RomPrograms \cup TruncatedPrograms \cup CasePrograms

\* debug and release builds
BuildProfiles == {TRUE, FALSE}

(***************************************************************************)
(* Reader driver: a caller that peeks and reads until the reader reports   *)
(* the end of input or fails.                                              *)
(***************************************************************************)
Counters(r) == <<r.char_pos, r.line, r.col, r.lines>>

NoPeek == [called |-> FALSE]
NoNext == [called |-> FALSE]

\* the parts of the state a specification does not drive
IdleReader ==
    /\ out = <<>>
    /\ hist = [peek |-> NoPeek, next |-> NoNext]
    /\ rstat = "idle"
    /\ peeked = FALSE

IdleLexer == lexed = <<>> /\ lstat = "idle"

NoHistory == earlier = [kind |-> "none"] /\ written = <<>>

IdleCompiler ==
    /\ compiler = Compiler(<<>>, <<>>, TRUE)
    /\ frame = NoFrame
    /\ context = NewContext
    /\ pc = "idle"
    /\ result = [kind |-> "none"]
    /\ ran = [resolutions |-> 0, writes |-> 0]

InitReader ==
    /\ input \in SeqsUpTo(ReaderAlphabet, MaxChars)
    /\ \E chunks \in SeqsUpTo(1..MaxChunk, MaxReads) :
            rd = new(Source(AsBytes(input), chunks))
    /\ out = <<>>
    /\ hist = [peek |-> NoPeek, next |-> NoNext]
    /\ rstat = "run"
    /\ peeked = FALSE
    /\ IdleLexer
    /\ IdleCompiler
    /\ NoHistory

DoPeek ==
    /\ rstat = "run"
    /\ ~hist.peek.called \/ hist.next.called
    /\ LET p == peek_char(rd)
       IN  /\ rd' = p.rd
           /\ hist' = [peek |-> [called |-> TRUE, res |-> p.res, c |-> p.c,
                                 before |-> Counters(rd), after |-> Counters(p.rd),
                                 pos |-> peek_pos(p.rd), line |-> peek_line(p.rd),
                                 col |-> peek_col(p.rd)],
                       next |-> NoNext]
           /\ rstat' = IF p.res = "err" THEN "err" ELSE rstat
    /\ peeked' = TRUE
    /\ UNCHANGED <<input, histVars, out, lexVars, compVars>>

DoNext ==
    /\ rstat = "run"
    /\ LET n == next_char(rd)
       IN  /\ rd' = n.rd
           /\ hist' = [peek |-> IF hist.next.called THEN NoPeek ELSE hist.peek,
                       next |-> [called |-> TRUE, res |-> n.res, c |-> n.c,
                                 pos |-> pos(n.rd), line |-> line(n.rd),
                                 col |-> col(n.rd)]]
           /\ out' = IF n.res = "some"
                     THEN Append(out, [c |-> n.c, pos |-> pos(n.rd),
                                       line |-> line(n.rd), col |-> col(n.rd)])
                     ELSE out
           /\ rstat' = CASE n.res = "some" -> "run"
                         [] n.res = "none" -> "eof"
                         [] OTHER -> "err"
    /\ UNCHANGED <<input, histVars, peeked, lexVars, compVars>>

NextReader == DoPeek \/ DoNext

SpecReader == InitReader /\ [][NextReader]_vars

\* the reader on a stream that ends inside its last character: the bytes of
\* `input` without the last `cut` bytes of a character of two or more bytes
InitTruncated ==
    /\ input \in SeqsUpTo(ReaderAlphabet, MaxChars)
    /\ Len(input) > 0
    /\ \E cut \in 1..(Len(Utf8Encode(input[Len(input)])) - 1),
          chunks \in SeqsUpTo(1..MaxChunk, MaxReads) :
            rd = new(Source(SubSeq(AsBytes(input), 1, Len(AsBytes(input)) - cut), chunks))
    /\ out = <<>>
    /\ hist = [peek |-> NoPeek, next |-> NoNext]
    /\ rstat = "run"
    /\ peeked = FALSE
    /\ IdleLexer
    /\ IdleCompiler
    /\ NoHistory

SpecTruncated == InitTruncated /\ [][NextReader]_vars

(***************************************************************************)
(* tokenize, one turn of its loop at a time.                               *)
(***************************************************************************)
InitLex ==
    /\ input \in SeqsUpTo(LexAlphabet, MaxText)
    /\ \E chunks \in {<<>>, [i \in 1..MaxReads |-> 1]} :
            rd = new(Source(AsBytes(input), chunks))
    /\ lexed = <<>>
    /\ lstat = "run"
    /\ IdleReader
    /\ IdleCompiler
    /\ NoHistory

LexStep ==
    /\ lstat = "run"
    /\ LET it == LexIter(rd)
       IN  /\ rd' = it.rd
           /\ lexed' = IF it.res = "ok" /\ it.tok # NoTok THEN Append(lexed, it.tok)
                        ELSE lexed
           /\ lstat' = CASE it.res = "ok" -> "run"
                         [] it.res = "done" -> "done"
                         [] OTHER -> "err"
    /\ UNCHANGED <<input, histVars, readerVars, compVars>>

NextLex == LexStep

SpecLex == InitLex /\ [][NextLex]_vars

\* Words and separators a text is put together from, keywords in mixed case:
\* "LD", "St", "jp", "sUb", "DEF", "Rom", "A", "ix", "x", "ld1", " ", "\n"
\* and the letter U+4E2D
Lexemes ==
    << <<76, 68>>, <<83, 116>>, <<106, 112>>, <<115, 85, 98>>, <<68, 69, 70>>,
       <<82, 111, 109>>, <<65>>, <<105, 120>>, <<120>>, <<108, 100, 49>>,
       <<32>>, <<NL>>, <<20013>> >>

InitKeywords ==
    /\ \E ws \in SeqsUpTo(1..Len(Lexemes), MaxLexemes) :
            input = Flatten([k \in 1..Len(ws) |-> Lexemes[ws[k]]])
    /\ \E chunks \in {<<>>, [i \in 1..MaxReads |-> 1]} :
            rd = new(Source(AsBytes(input), chunks))
    /\ lexed = <<>>
    /\ lstat = "run"
    /\ IdleReader
    /\ IdleCompiler
    /\ NoHistory

SpecKeywords == InitKeywords /\ [][NextLex]_vars

(***************************************************************************)
(* compile  (src/compiler/mod.rs), one turn of each of its loops at a time.*)
(***************************************************************************)
InitCompile ==
    /\ \E prog \in SeqsUpTo(1..Len(Pieces), MaxPieces), oc \in BuildProfiles :
            /\ input = ProgramText(prog)
            /\ compiler = Compiler(ProgramBytes(prog), ProgramTokens(WordsOf(prog), 0, 0, 0), oc)
    /\ rd = new(Cursor(<<>>))
    /\ frame = NoFrame
    /\ context = NewContext
    /\ pc = "start"
    /\ result = [kind |-> "none"]
    /\ ran = [resolutions |-> 0, writes |-> 0]
    /\ IdleReader
    /\ IdleLexer
    /\ NoHistory

Goto(c1, target) == IF c1.panicked THEN "panic" ELSE target

\* self.skip_line_sep() before the loop
CompileStart ==
    /\ pc = "start"
    /\ compiler' = skip_line_sep(compiler)
    /\ pc' = "parse"
    /\ UNCHANGED <<input, histVars, rd, readerVars, lexVars, frame, context, result, ran>>

\* one turn of `while self.remaining_tokens.len() > 0`, up to the loop of
\* read_block when the turn opens a block
ParseTop ==
    /\ pc = "parse" /\ ~frame.open /\ Remaining(compiler) > 0
    /\ LET r == compile_remaining(compiler)
       IN  /\ compiler' = IF r.frame.open \/ r.c.panicked THEN r.c ELSE skip_line_sep(r.c)
           /\ frame' = r.frame
           /\ pc' = Goto(r.c, "parse")
    /\ UNCHANGED <<input, histVars, rd, readerVars, lexVars, context, result, ran>>

\* one turn of the loop of read_block; when the loop ends, the rest of
\* read_label_block and of the turn of the outer loop
ParseBlock ==
    /\ pc = "parse" /\ frame.open
    /\ LET r == read_block_iter(compiler, frame)
       IN  /\ compiler' = IF r.frame.open \/ r.c.panicked THEN r.c ELSE skip_line_sep(r.c)
           /\ frame' = r.frame
           /\ pc' = Goto(r.c, "parse")
    /\ UNCHANGED <<input, histVars, rd, readerVars, lexVars, context, result, ran>>

\* the end of the parsing loop
ParseEnd ==
    /\ pc = "parse" /\ ~frame.open /\ Remaining(compiler) = 0
    /\ IF HasErrors(compiler)
       THEN pc' = "failed" /\ result' = [kind |-> "Err", errors |-> compiler.errors]
       ELSE pc' = "resolve" /\ result' = result
    /\ context' = NewContext
    /\ UNCHANGED <<input, histVars, rd, readerVars, lexVars, compiler, frame, ran>>

\* one turn of 'resolution_loop
ResolveSweep ==
    /\ pc = "resolve" /\ Len(compiler.resolution_queue) > 0
    /\ LET before == Len(compiler.resolution_queue)
           sw == SweepFrom(compiler.resolution_queue, context, <<>>, 0)
           stalled == Len(sw.queue) > 0 /\ Len(sw.queue) = before
           c1 == [compiler EXCEPT !.resolution_queue = sw.queue,
                           !.errors = IF stalled
                                      THEN @ \o [i \in 1..Len(sw.queue) |-> UnresolvedError]
                                      ELSE @]
       IN  /\ context' = sw.ctx
           /\ ran' = [ran EXCEPT !.resolutions = @ + sw.ran]
           /\ compiler' = IF sw.panicked THEN [compiler EXCEPT !.panicked = TRUE] ELSE c1
           /\ pc' = IF sw.panicked THEN "panic"
                    ELSE IF stalled THEN "failed" ELSE "resolve"
           /\ result' = IF ~sw.panicked /\ stalled
                        THEN [kind |-> "Err", errors |-> c1.errors] ELSE result
    /\ UNCHANGED <<input, histVars, rd, readerVars, lexVars, frame>>

\* the loop has ended with the queue empty
ResolveEnd ==
    /\ pc = "resolve" /\ Len(compiler.resolution_queue) = 0
    /\ IF HasErrors(compiler)
       THEN pc' = "failed" /\ result' = [kind |-> "Err", errors |-> compiler.errors]
       ELSE pc' = "emit" /\ result' = result
    /\ UNCHANGED <<input, histVars, rd, readerVars, lexVars, compiler, frame, context, ran>>

\* one turn of `for write in self.write_queue`
EmitWrite ==
    /\ pc = "emit" /\ ran.writes < Len(compiler.write_queue)
    /\ LET w == RunWrite(compiler.write_queue[ran.writes + 1], context)
       IN  /\ context' = w.ctx
           /\ pc' = IF w.panicked THEN "panic" ELSE "emit"
           /\ compiler' = IF w.panicked THEN [compiler EXCEPT !.panicked = TRUE] ELSE compiler
           /\ ran' = [ran EXCEPT !.writes = @ + 1]
    /\ UNCHANGED <<input, histVars, rd, readerVars, lexVars, frame, result>>

\* MultiResult::Ok(context.binary)
EmitEnd ==
    /\ pc = "emit" /\ ran.writes = Len(compiler.write_queue)
    /\ pc' = "done"
    /\ result' = [kind |-> "Ok", binary |-> context.binary]
    /\ UNCHANGED <<input, histVars, rd, readerVars, lexVars, compiler, frame, context, ran>>

Next ==
    \/ CompileStart
    \/ ParseTop
    \/ ParseBlock
    \/ ParseEnd
    \/ ResolveSweep
    \/ ResolveEnd
    \/ EmitWrite
    \/ EmitEnd

Spec == InitCompile /\ [][Next]_vars

\* the guards of ParseTop and ParseBlock, and of EmitWrite: a turn of the
\* parsing loops, or of the write loop, can be taken
ParseTurnEnabled == pc = "parse" /\ (frame.open \/ Remaining(compiler) > 0)
EmitTurnEnabled == pc = "emit" /\ ran.writes < Len(compiler.write_queue)

\* weak fairness of the turns of the parsing loops and of the write loop,
\* with the guard of the action for ENABLED
ParseFair == ([]<>~ParseTurnEnabled) \/ ([]<><<ParseTop \/ ParseBlock>>_vars)
EmitFair == ([]<>~EmitTurnEnabled) \/ ([]<><<EmitWrite>>_vars)

\* compile is one call that runs on: it is not left between two turns of a
\* loop, nor between two of its loops
SpecLive ==
    /\ Spec
    /\ WF_vars(CompileStart \/ ParseEnd \/ ResolveSweep \/ ResolveEnd \/ EmitEnd)
    /\ ParseFair
    /\ EmitFair

\* compile on the instruction programs
InitAsm ==
    /\ \E words \in AsmPrograms, oc \in BuildProfiles :
            /\ input = WordsText(words)
            /\ compiler = Compiler(WordsBytes(words), ProgramTokens(words, 0, 0, 0), oc)
    /\ rd = new(Cursor(<<>>))
    /\ frame = NoFrame
    /\ context = NewContext
    /\ pc = "start"
    /\ result = [kind |-> "none"]
    /\ ran = [resolutions |-> 0, writes |-> 0]
    /\ IdleReader
    /\ IdleLexer
    /\ NoHistory

SpecAsm == InitAsm /\ [][Next]_vars

(***************************************************************************)
(* read_data_target driver: a caller that reads one operand.               *)
(***************************************************************************)
\* what stands first: a register, a literal, `y`, `*`, `a`, `AF`, `ld`, a
\* comma or a newline; and what follows it: nothing, `*`, a comma, a newline
TargetFirsts == (22..38) \cup {47, 48, 49, 50, 18, 19, 20}
TargetSeconds == {<<>>, <<48>>, <<19>>, <<20>>}
TargetInputs == {<<>>} \cup {<<f>> \o s : f \in TargetFirsts, s \in TargetSeconds}

InitTarget ==
    /\ \E words \in TargetInputs :
            /\ input = WordsText(words)
            /\ compiler = Compiler(WordsBytes(words), ProgramTokens(words, 0, 0, 0), TRUE)
    /\ rd = new(Cursor(<<>>))
    /\ frame = NoFrame
    /\ context = NewContext
    /\ pc = "target"
    /\ result = [kind |-> "none"]
    /\ ran = [resolutions |-> 0, writes |-> 0]
    /\ IdleReader
    /\ IdleLexer
    /\ NoHistory

\* self.read_data_target()
ReadTarget ==
    /\ pc = "target"
    /\ LET r == read_data_target(compiler)
       IN  /\ compiler' = r.c
           /\ result' = [kind |-> "target", r |-> r]
    /\ pc' = "read"
    /\ UNCHANGED <<input, histVars, rd, readerVars, lexVars, frame, context, ran>>

SpecTarget == InitTarget /\ [][ReadTarget]_vars

(***************************************************************************)
(* CompilerContext driver: a caller that moves the cursor and writes.      *)
(***************************************************************************)
\* the addresses and the data of the calls
CtxAddresses == {0, 1, 4}
CtxData == {<<>>, <<1>>, <<2, 3>>}

InitContext ==
    /\ input = <<>>
    /\ rd = new(Cursor(<<>>))
    /\ compiler = Compiler(<<>>, <<>>, TRUE)
    /\ frame = NoFrame
    /\ context = NewContext
    /\ pc = "idle"
    /\ result = [kind |-> "none"]
    /\ ran = [resolutions |-> 0, writes |-> 0]
    /\ IdleReader
    /\ IdleLexer
    /\ NoHistory

\* context.set_address(new_address)
CtxSetAddress ==
    /\ pc = "idle"
    /\ \E new_address \in CtxAddresses :
            context' = ctx_set_address(context, new_address)
    /\ UNCHANGED <<input, histVars, rd, readerVars, lexVars, compiler, frame, pc, result, ran>>

\* context.write(data); `written` keeps where each call wrote and what
CtxWrite ==
    /\ pc = "idle" /\ Len(written) < MaxWrites
    /\ \E data \in CtxData :
            /\ context' = ctx_write(context, data)
            /\ written' = Append(written, [at |-> context.address, data |-> data])
    /\ UNCHANGED <<input, earlier, rd, readerVars, lexVars, compiler, frame, pc, result, ran>>

NextContext ==
    \/ CtxSetAddress
    \/ CtxWrite

SpecContext == InitContext /\ [][NextContext]_vars

\* the pragma put before a program
NaturalOrigin == Origin(33)

\* a second call of compile, once the first has returned a binary: the same
\* program after `@origin(0)`, with the tokens tokenize gives for that text
CompileTwin ==
    /\ pc = "done" /\ earlier.kind = "none"
    /\ earlier' = result
    /\ input' = WordsText(NaturalOrigin) \o input
    /\ compiler' = Compiler(WordsBytes(NaturalOrigin) \o compiler.text,
                            ProgramTokens(NaturalOrigin, 0, 0, 0)
                                \o [k \in 1..Len(compiler.tokens) |->
                                        MoveToken(compiler.tokens[k],
                                                  Len(WordsText(NaturalOrigin)), 1, 0)],
                            compiler.overflow_checks)
    /\ frame' = NoFrame
    /\ context' = NewContext
    /\ pc' = "start"
    /\ result' = [kind |-> "none"]
    /\ ran' = [resolutions |-> 0, writes |-> 0]
    /\ UNCHANGED <<written, rd, readerVars, lexVars>>

NextTwin ==
    \/ Next
    \/ CompileTwin

SpecTwin == InitAsm /\ [][NextTwin]_vars

(***************************************************************************)
(* compile with and without the tokens of comments.                        *)
(***************************************************************************)
\* sub x { ld A, $FF }, def y = $FF with sub x { jp y }, sub x { ld A, B }
\* and `def y = `; each with `// c` and a newline put in at one place, or
\* with `// c` at its end
CommentBases ==
    {Block(LdImm(22, 34)), <<39, 34, 20>> \o Block(<<12>>), Block(<<11>>), <<39>>}
InsertWord(b, k, w) == SubSeq(b, 1, k) \o <<w>> \o SubSeq(b, k + 1, Len(b))
CommentPrograms ==
    UNION {{InsertWord(b, k, 51) : k \in 0..Len(b)} \cup {b \o <<52>>} : b \in CommentBases}

\* the tokens without those of comments: a CommentLine token and what
\* follows it up to the next NewLine token, which stays
RECURSIVE StripComments(_, _)
StripComments(tokens, in_comment) ==
    IF tokens = <<>> THEN <<>>
    ELSE IF Head(tokens).ty = "NewLine"
    THEN <<Head(tokens)>> \o StripComments(Tail(tokens), FALSE)
    ELSE IF in_comment \/ Head(tokens).ty = "CommentLine"
    THEN StripComments(Tail(tokens), TRUE)
    ELSE <<Head(tokens)>> \o StripComments(Tail(tokens), FALSE)

InitComment ==
    /\ \E words \in CommentPrograms, oc \in BuildProfiles :
            /\ input = WordsText(words)
            /\ compiler = Compiler(WordsBytes(words), ProgramTokens(words, 0, 0, 0), oc)
    /\ rd = new(Cursor(<<>>))
    /\ frame = NoFrame
    /\ context = NewContext
    /\ pc = "start"
    /\ result = [kind |-> "none"]
    /\ ran = [resolutions |-> 0, writes |-> 0]
    /\ IdleReader
    /\ IdleLexer
    /\ NoHistory

\* a second call of compile, once the first has ended: the same text, with
\* the tokens of comments taken out of the token sequence
CompileStripped ==
    /\ pc \in {"done", "failed", "panic"} /\ earlier.kind = "none"
    /\ earlier' = [kind |-> "ran", pc |-> pc, result |-> result]
    /\ compiler' = Compiler(compiler.text, StripComments(compiler.tokens, FALSE),
                            compiler.overflow_checks)
    /\ frame' = NoFrame
    /\ context' = NewContext
    /\ pc' = "start"
    /\ result' = [kind |-> "none"]
    /\ ran' = [resolutions |-> 0, writes |-> 0]
    /\ UNCHANGED <<input, written, rd, readerVars, lexVars>>

NextComment ==
    \/ Next
    \/ CompileStripped

SpecComment == InitComment /\ [][NextComment]_vars

(***************************************************************************)
(* Lexer claims.                                                           *)
(***************************************************************************)
\* C8: every token tokenize returns has a line range of length exactly 1,
\* Error tokens, comment tokens and tokens next to newlines included.
C8_LineRangeOne ==
    \A i \in 1..Len(lexed) : lexed[i].span.line[2] - lexed[i].span.line[1] = 1

\* tokenize has returned tokens of a second line, one of them an Error token
C8_Witness ==
    /\ lstat = "done"
    /\ \E i \in 1..Len(lexed) : lexed[i].ty = "NewLine"
    /\ \E i \in 1..Len(lexed) : lexed[i].ty \in {"Error", "Identifier"}
                                /\ lexed[i].span.line[1] = 1

(***************************************************************************)
(* Compiler claims.                                                        *)
(***************************************************************************)
Returned == pc \in {"done", "failed"}
Ended == pc \in {"done", "failed", "panic"}

UnresolvedMessage == "Could not resolve a declaration"

\* the errors parsing recorded
ParseErrors == SelectSeq(compiler.errors, LAMBDA e : e.message[1] # UnresolvedMessage)

\* the names the program defines: those resolved and those still queued
DefinedNames ==
    {context.declarations[i].name : i \in 1..Len(context.declarations)}
        \cup {compiler.resolution_queue[i].name : i \in 1..Len(compiler.resolution_queue)}

\* no name is defined twice
DefinedOnce ==
    Len(context.declarations) + Len(compiler.resolution_queue) = Cardinality(DefinedNames)

\* the names the instructions and rom declarations of the program refer to
ReferredNames ==
    {compiler.write_queue[i].f.ident :
        i \in {j \in 1..Len(compiler.write_queue) :
                /\ compiler.write_queue[j].kind = "write"
                /\ compiler.write_queue[j].f.op \in {"opcode_sym", "sym"}}}

\* C2: a program that parses, defines no name twice and refers to a symbol
\* that is never defined makes compile return an error list with an unresolved-declaration error
\* in it; compile neither crashes nor returns a binary.
C2_UndefinedSymbolFails ==
    (Ended /\ ParseErrors = <<>> /\ DefinedOnce /\ ReferredNames \ DefinedNames # {})
        => /\ pc = "failed"
           /\ result.kind = "Err"
           /\ \E i \in 1..Len(result.errors) : result.errors[i].message[1] = UnresolvedMessage

\* two half-open ranges share an address
Intersects(a, b) == a[1] < b[2] /\ b[1] < a[2] /\ a[1] < a[2] /\ b[1] < b[2]

\* C3: a `sub` block that finishes with a range sharing an address with the
\* range of a previously recorded block, the case where it strictly contains
\* the older one included, is reported by reserve_area and a compile error
\* is recorded for it.
C3_OverlapReported ==
    \A i \in 1..Len(compiler.blocks) :
        LET b == compiler.blocks[i]
        IN  (\E k \in 1..Len(b.areas) : Intersects(b.range, b.areas[k].range))
                => b.reported /\ b.errs_after = b.errs_before + 1

\* C4: when two `sub` blocks have intersecting address ranges, the error
\* list compile returns holds a diagnostic for each of the two blocks, with
\* distinct spans, and no binary is produced.
C4_BothBlocksReported ==
    Ended =>
        \A i, j \in 1..Len(compiler.blocks) :
            (i < j /\ Intersects(compiler.blocks[i].range, compiler.blocks[j].range))
                => /\ result.kind = "Err"
                   /\ \E m, n \in 1..Len(result.errors) :
                        /\ result.errors[m].span = compiler.blocks[i].name_span
                        /\ result.errors[n].span = compiler.blocks[j].name_span
                        /\ result.errors[m].span # result.errors[n].span

\* C5: after a parse error the parser discards tokens only up to and
\* including the newline that ends the line of the error: among the tokens a
\* recovery drops, none follows a newline but further newlines.
C5_RecoveryWithinLine ==
    \A i \in 1..Len(compiler.resets) :
        \A j, k \in (compiler.resets[i].from + 1)..compiler.resets[i].to :
            ~(j < k /\ compiler.tokens[j].ty = "NewLine"
                    /\ compiler.tokens[k].ty # "NewLine")

\* C6: no resolution closure is run if parsing recorded an error, no write
\* closure is run unless parsing and resolution recorded no error and every
\* resolution entry has succeeded, and the only outcomes are Done (the
\* binary is returned) and Failed (the error list is returned).
C6_PhaseGating ==
    /\ ran.resolutions > 0 => ParseErrors = <<>>
    /\ ran.writes > 0 => compiler.errors = <<>> /\ compiler.resolution_queue = <<>>
    /\ pc # "panic"

\* C7: compile returns Err exactly when at least one error was recorded, the
\* list is then non-empty and is the errors recorded, in the order they were
\* detected; otherwise it returns Ok with the binary.
C7_ErrIffErrors ==
    Returned =>
        /\ (result.kind = "Err") <=> (Len(compiler.errors) > 0)
        /\ pc = "failed" => /\ result.kind = "Err"
                            /\ result.errors = compiler.errors
                            /\ Len(result.errors) > 0
        /\ pc = "done" => /\ result.kind = "Ok"
                          /\ result.binary = context.binary

\* compile has returned two errors, found on two lines of the program
C7_Witness ==
    /\ pc = "failed"
    /\ Len(result.errors) = 2
    /\ result.errors[1].span.line[1] < result.errors[2].span.line[1]

(***************************************************************************)
(* Reader claims.                                                          *)
(***************************************************************************)
\* What repeated next_char gives when the source never reads short
\* (std::io::Cursor, the source of the repository's tests).
RECURSIVE ReadAll(_, _)
ReadAll(r, acc) ==
    LET n == next_char(r)
    IN  IF n.res = "some"
        THEN ReadAll(n.rd, Append(acc, [c |-> n.c, pos |-> pos(n.rd),
                                        line |-> line(n.rd), col |-> col(n.rd)]))
        ELSE acc

\* C1: for every valid UTF-8 input, the (character, pos, line, col) sequence
\* that repeated next_char produces until the end of input is the same
\* however the byte source splits the bytes across its reads.
C1_ChunkInsensitive ==
    (rstat \in {"eof", "err"} /\ ~peeked)
        => out = ReadAll(new(Cursor(AsBytes(input))), <<>>)

NewlinesIn(s) == Cardinality({j \in 1..Len(s) : s[j].c = NL})

LastNewline(s) ==
    IF \E j \in 1..Len(s) : s[j].c = NL
    THEN CHOOSE j \in 1..Len(s) : s[j].c = NL /\ \A k \in (j + 1)..Len(s) : s[k].c # NL
    ELSE 0

\* C9: after each successful next_char, pos() is the number of characters
\* consumed before that character, line() the number of newlines consumed
\* before it and col() the number of characters consumed since the most
\* recent of those newlines; a newline reports the line it terminates.
C9_PositionBookkeeping ==
    \A i \in 1..Len(out) :
        LET before == SubSeq(out, 1, i - 1)
        IN  /\ out[i].pos = i - 1
            /\ out[i].line = NewlinesIn(before)
            /\ out[i].col = (i - 1) - LastNewline(before)

\* a newline in the middle of a line has been read, and a character after it
C9_Witness ==
    /\ Len(out) = 3
    /\ out[1].c # NL /\ out[2].c = NL /\ out[3].c # NL
    /\ out[2].line = 0 /\ out[2].col = 1 /\ out[3].line = 1 /\ out[3].col = 0

\* C10: peek_char leaves pos, line, col and the line table unchanged and
\* returns the character the next next_char returns (None iff next_char
\* returns None); when a further character exists, peek_pos/peek_line/
\* peek_col are the pos/line/col reported after that next_char.
C10_PeekPredictsNext ==
    hist.peek.called =>
        /\ hist.peek.before = hist.peek.after
        /\ hist.next.called =>
            /\ hist.next.res = hist.peek.res
            /\ hist.next.c = hist.peek.c
            /\ hist.next.res = "some" =>
                /\ hist.peek.pos = hist.next.pos
                /\ hist.peek.line = hist.next.line
                /\ hist.peek.col = hist.next.col

(***************************************************************************)
(* Lexer claims: unidentifiable runs, keywords, re-lexing.                 *)
(***************************************************************************)
\* the character at 0-based position p of the input
CharAt(p) == input[p + 1]

\* a character none of the branches of tokenize before read_unidentifiable takes
Unidentifiable(c) ==
    /\ \A i \in 1..Len(SingleChars) : SingleChars[i].c # c
    /\ ~is_whitespace(c) /\ c # 47 /\ c # 36
    /\ ~is_numeric(c) /\ ~is_alphabetic(c)

\* a token starts at p: at the start of the text, after whitespace, or where
\* the token before it ended
TokenStartsAt(p) ==
    /\ p < Len(input)
    /\ \A i \in 1..Len(lexed) : ~(lexed[i].span.pos[1] < p /\ p < lexed[i].span.pos[2])
    /\ \/ p = 0
       \/ is_whitespace(CharAt(p - 1))
       \/ \E i \in 1..Len(lexed) : lexed[i].span.pos[2] = p

\* the end of the run of non-whitespace characters that starts at p
RunEnd(p) ==
    CHOOSE q \in p..Len(input) :
        /\ \A k \in p..(q - 1) : ~is_whitespace(CharAt(k))
        /\ q = Len(input) \/ is_whitespace(CharAt(q))

\* C11: a token that starts with a character that is not punctuation,
\* whitespace, `/`, `$`, a digit or alphabetic is emitted as exactly one
\* Error token spanning the run up to the next whitespace, directly after a
\* literal too, and tokenize still returns Ok.
C11_ErrorRun ==
    /\ lstat # "err"
    /\ lstat = "done" =>
        \A p \in 0..(Len(input) - 1) :
            (TokenStartsAt(p) /\ Unidentifiable(CharAt(p))) =>
                /\ Cardinality({i \in 1..Len(lexed) : lexed[i].span.pos[1] = p}) = 1
                /\ \E i \in 1..Len(lexed) :
                        /\ lexed[i].ty = "Error"
                        /\ lexed[i].span.pos = <<p, RunEnd(p)>>

\* the end of the identifier-shaped word that starts at p
WordEnd(p) ==
    CHOOSE q \in (p + 1)..Len(input) :
        /\ \A k \in (p + 1)..(q - 1) : is_identifier_char(CharAt(k), FALSE)
        /\ q = Len(input) \/ ~is_identifier_char(CharAt(q), FALSE)

\* the classes of C12, of a lower-cased text
ClaimedType(text) ==
    IF text \in {<<108, 100>>, <<115, 116>>, <<106, 112>>} THEN "Instruction"
    ELSE IF text = <<115, 117, 98>> THEN "LabelSpecifier"
    ELSE IF text \in REGISTERS THEN "Register"
    ELSE IF text \in {<<100, 101, 102>>, <<114, 111, 109>>} THEN "DataDeclaration"
    ELSE "Identifier"

\* C12: an identifier-shaped word is one token, classified by its
\* lower-cased text whatever the case of the source (Instruction for ld, st,
\* jp; LabelSpecifier for sub; Register for a register name; DataDeclaration
\* for def, rom; else Identifier), with a span that covers exactly the word.
C12_KeywordClass ==
    lstat = "done" =>
        \A p \in 0..(Len(input) - 1) :
            (TokenStartsAt(p) /\ is_alphabetic(CharAt(p))) =>
                /\ Cardinality({i \in 1..Len(lexed) : lexed[i].span.pos[1] = p}) = 1
                /\ \E i \in 1..Len(lexed) :
                        /\ lexed[i].span.pos = <<p, WordEnd(p)>>
                        /\ lexed[i].ty =
                              ClaimedType(Lower(SubSeq(input, p + 1, WordEnd(p))))

\* lexing alone the text that Span::slice selects for a token of the input:
\* "panic" when the slice is not on character boundaries
Relex(span) ==
    IF ~SliceOk(AsBytes(input), span) THEN [res |-> "panic", tokens |-> <<>>]
    ELSE With(tokenize(Cursor(slice(span, AsBytes(input)))), LAMBDA t :
            [res |-> t.res, tokens |-> t.tokens])

\* C13: for every token t that tokenize produces, the text selected by
\* t.span (Span::slice over t.span.pos), lexed alone, yields a single token
\* of the kind of t, also with multi-byte characters before t in the source.
C13_RelexSameKind ==
    lstat = "done" =>
        \A i \in 1..Len(lexed) :
            /\ Relex(lexed[i].span).res = "ok"
            /\ Len(Relex(lexed[i].span).tokens) = 1
            /\ Relex(lexed[i].span).tokens[1].ty = lexed[i].ty

(***************************************************************************)
(* Instruction claims.                                                     *)
(***************************************************************************)
\* the address a program starts at
BaseOf(o) == IF o = <<>> THEN 0 ELSE ValueOfWord(o[2])

\* compile has returned a binary that is `bytes` from `base` on and ends there
EmitsAt(base, bytes) ==
    /\ pc = "done"
    /\ result.kind = "Ok"
    /\ Len(result.binary) = base + Len(bytes)
    /\ \A k \in 1..Len(bytes) : result.binary[base + k] = bytes[k]

\* the opcodes C14 lists
ListedLdOpcode(reg) ==
    CASE reg = "A" -> 62 [] reg = "B" -> 6 [] reg = "C" -> 14 [] reg = "D" -> 22
      [] reg = "E" -> 30 [] reg = "H" -> 38 [] reg = "L" -> 46 [] OTHER -> NoneV

\* C14: inside a sub block, for every short register r and every immediate
\* v <= 0xFF, `ld r, v` passes parsing and emits exactly two bytes: an opcode
\* determined by r (A=0x3E, B=0x06, C=0x0E, D=0x16, E=0x1E, H=0x26, L=0x2E,
\* and one for each remaining short register) followed by v.
C14_LdImmediate ==
    \A o \in Origins, r \in ShortRegisterWords, v \in {33, 34} :
        input = WordsText(o \o Block(LdImm(r, v))) =>
            /\ compiler.errors = <<>>
            /\ Ended =>
                /\ pc = "done" /\ result.kind = "Ok"
                /\ Len(result.binary) = BaseOf(o) + 2
                /\ result.binary[BaseOf(o) + 2] = ValueOfWord(v)
                /\ ListedLdOpcode(RegisterOfWord(r)) # NoneV =>
                        result.binary[BaseOf(o) + 1] = ListedLdOpcode(RegisterOfWord(r))

\* the two instruction lines of C15 and the bytes of each
BareLines == {[line |-> LdImm(22, 34), bytes |-> <<62, 255>>],
              [line |-> LdAddr(36), bytes |-> <<50, 0, 96>>]}

\* C15: a source that consists only of one instruction line, with no
\* enclosing sub block (`ld A, $FF\n` or `ld $6000*, A\n`), compiles to
\* exactly that instruction's bytes ([0x3E, 0xFF] and [0x32, 0x00, 0x60]).
C15_BareLineCompiles ==
    \A b \in BareLines :
        (input = WordsText(b.line) /\ Ended) => EmitsAt(0, b.bytes)

\* C15, amended: with no enclosing sub block the line is refused with the
\* one error "Unexpected token Instruction" and no binary is returned; in a
\* sub block it compiles to exactly the instruction's bytes.
C15_BareLineRefused ==
    \A b \in BareLines :
        /\ (input = WordsText(b.line) /\ Ended) =>
                /\ pc = "failed" /\ result.kind = "Err"
                /\ Len(result.errors) = 1
                /\ result.errors[1].message = <<"Unexpected token", "Instruction">>
                /\ compiler.write_queue = <<>>
        /\ (input = WordsText(Block(b.line)) /\ Ended) => EmitsAt(0, b.bytes)

\* compile has refused the bare line `ld A, $FF`
C15_Witness ==
    /\ input = WordsText(LdImm(22, 34))
    /\ pc = "failed"
    /\ Len(result.errors) = 1

\* parsing is over
Parsed == pc \in {"resolve", "emit", "done", "failed", "panic"}

\* C16: inside a sub block, `ld n*, A` for any numeric literal n in
\* 0..=0xFFFF emits exactly the three bytes [0x32, n mod 256, n div 256]
\* and advances the cursor by 3.
C16_LdAddress ==
    \A o \in Origins, n \in {33, 36, 37} :
        input = WordsText(o \o Block(LdAddr(n))) =>
            /\ Parsed => compiler.address = BaseOf(o) + 3
            /\ Ended => EmitsAt(BaseOf(o), <<50, ValueOfWord(n) % 256,
                                             ValueOfWord(n) \div 256>>)

\* the bytes a definition of y takes in the image
DefSize(d) == IF d[1] = 39 THEN 0 ELSE 2

\* the bytes the uses of y take: three for each line of sub x
UseSize(u) == 3 * (Len(u) - 3)

\* the final value of y: the literal of a def, or the cursor at the rom
\* declaration or at the start of sub y
SymbolValue(o, d, u, def_first) ==
    IF d[1] = 39 THEN ValueOfWord(d[2])
    ELSE IF def_first THEN BaseOf(o) ELSE BaseOf(o) + UseSize(u)

\* the bytes C17 gives for line k of sub x, for the value v of y
UseBytes(u, k, v) ==
    <<(IF u[2 + k] = 12 THEN 195 ELSE 50), v % 256, v \div 256>>

\* compile has returned a binary that holds sub x, at `at`, with the value v
UsesEmitted(u, at, v) ==
    /\ pc = "done" /\ result.kind = "Ok"
    /\ Len(result.binary) >= at + UseSize(u)
    /\ \A k \in 1..(Len(u) - 3), j \in 1..3 :
            result.binary[at + 3 * (k - 1) + j] = UseBytes(u, k, v)[j]

\* C17: symbol operands are looked up at emission time: `jp y` emits
\* [0xC3, lo, hi] and `ld y*, A` emits [0x32, lo, hi], lo and hi being the
\* final value of y (a def literal, a rom address or the start address of a
\* sub), whether y is defined before or after the instruction.
C17_SymbolOperands ==
    \A o \in SymbolOrigins, d \in SymbolDefs, u \in SymbolUses :
        /\ (input = WordsText(o \o d \o u) /\ Ended) =>
                UsesEmitted(u, BaseOf(o) + DefSize(d), SymbolValue(o, d, u, TRUE))
        /\ (input = WordsText(o \o u \o d) /\ Ended) =>
                UsesEmitted(u, BaseOf(o), SymbolValue(o, d, u, FALSE))

\* C18: for any program that compiles to a binary, and so for any such
\* program without forward references, the same program with `@origin(0)`
\* put before it compiles to exactly the same bytes.
C18_OriginZeroSameBytes ==
    (earlier.kind = "Ok" /\ Ended) => (pc = "done" /\ result = earlier)

\* a program with a binary of some bytes has been compiled again after
\* `@origin(0)`
C18_Witness ==
    /\ earlier.kind = "Ok"
    /\ pc = "done"
    /\ Len(result.binary) > 0

(***************************************************************************)
(* CompilerContext claims.                                                 *)
(***************************************************************************)
\* the end address of write k
WriteEnd(k) == written[k].at + Len(written[k].data)

\* write k covered the byte at address a
Covers(k, a) == written[k].at <= a /\ a < WriteEnd(k)

\* the largest end address of the writes performed, 0 if there is none
LargestEnd ==
    IF written = <<>> THEN 0
    ELSE CHOOSE e \in {WriteEnd(k) : k \in 1..Len(written)} :
            \A k \in 1..Len(written) : WriteEnd(k) <= e

\* the last write that covered the byte at address a
LastCover(a) ==
    CHOOSE k \in 1..Len(written) :
        Covers(k, a) /\ \A j \in (k + 1)..Len(written) : ~Covers(j, a)

\* the slice binary[address..end_address] of the next write is in range
\* once reserve_min has run, so copy_from_slice does not panic
WriteFits(data) ==
    Len(reserve_min(context.binary, context.address + Len(data)))
        >= context.address + Len(data)

\* C19: after any sequence of set_address and write calls the binary's
\* length is the largest end address of any write performed (0 if none),
\* every byte no write covered is 0, and every covered byte holds the value
\* of the last write that covered it; a write beyond the current end extends
\* the binary and does not fail.
C19_ContextImage ==
    pc = "idle" =>
        /\ Len(context.binary) = LargestEnd
        /\ \A a \in 0..(Len(context.binary) - 1) :
                IF \E k \in 1..Len(written) : Covers(k, a)
                THEN context.binary[a + 1] =
                        written[LastCover(a)].data[a - written[LastCover(a)].at + 1]
                ELSE context.binary[a + 1] = 0
        /\ \A data \in CtxData : WriteFits(data)

\* a write beyond the end has left a gap, and a later write has covered a
\* byte that an earlier one had written
C19_Witness ==
    /\ pc = "idle"
    /\ Len(written) = 3
    /\ written[1].at = 4 /\ written[1].data = <<2, 3>>
    /\ written[2].at = 4 /\ written[2].data = <<1>>
    /\ context.binary = <<0, 0, 0, 0, 1, 3>>

\* the `ld` lines with an unsupported pair of operands
BadLdLines == {<<11>>, LdImm(32, 33)}

\* the errors the second line of a block gives: none for no line and for
\* `ld A, 0`, one for `ld A, B`, `ld A` and `ld A, $100`
SecondLineErrors(l) == IF l \in {<<>>, LdImm(22, 33)} THEN 0 ELSE 1

\* the bytes the second line schedules: two for `ld A, 0`
SecondLineBytes(l) == IF l = LdImm(22, 33) THEN 2 ELSE 0

\* e is the error of the unsupported arm, naming both operands of line b
NamesBothOperands(e, b) ==
    /\ Len(e.message) = 3
    /\ e.message[1] = "'ld' isn't implemented for"
    /\ e.message[2].kind = "Register"
    /\ e.message[2].reg.name = (IF b = <<11>> THEN "A" ELSE "SP")
    /\ IF b = <<11>>
       THEN e.message[3].kind = "Register" /\ e.message[3].reg.name = "B"
       ELSE e.message[3].kind = "Immediate" /\ e.message[3].v = 0

\* C20: an `ld` line with an unsupported pair of operands (`ld A, B`,
\* `ld SP, 0`) records exactly one error, whose message names both operand
\* forms, schedules no write and leaves the cursor unchanged; parsing
\* resumes at the next line, whose errors are reported and whose bytes are
\* scheduled.
C20_UnsupportedLd ==
    \A b \in BadLdLines, l \in SecondLines :
        (input = WordsText(Block(b \o l)) /\ Parsed) =>
            /\ pc = "failed"
            /\ Len(compiler.errors) = 1 + SecondLineErrors(l)
            /\ NamesBothOperands(compiler.errors[1], b)
            /\ \A k \in 2..Len(compiler.errors) :
                    ~NamesBothOperands(compiler.errors[k], b) \/ l = b
            /\ Len(compiler.write_queue) = (IF SecondLineBytes(l) > 0 THEN 1 ELSE 0)
            /\ compiler.address = SecondLineBytes(l)
            /\ result.errors = compiler.errors

\* `ld A, B` and then `ld A`: both lines have their error
C20_Witness ==
    /\ input = WordsText(Block(<<11, 10>>))
    /\ pc = "failed"
    /\ Len(result.errors) = 2
    /\ NamesBothOperands(result.errors[1], <<11>>)

(***************************************************************************)
(* Symbol table claims.                                                    *)
(***************************************************************************)
\* the definitions of the program: its sub, def and rom keywords
DefinitionTokens ==
    {k \in 1..Len(compiler.tokens) :
        compiler.tokens[k].ty \in {"LabelSpecifier", "DataDeclaration"}}

\* no name is in the table twice
TableFunctional ==
    \A i, j \in 1..Len(context.declarations) :
        context.declarations[i].name = context.declarations[j].name => i = j

\* the table after a step holds every entry it held, unchanged and in place
TableGrows ==
    /\ Len(context'.declarations) >= Len(context.declarations)
    /\ \A i \in 1..Len(context.declarations) :
            context'.declarations[i] = context.declarations[i]

\* C21: the symbol table never changes the value of a name once defined and
\* only grows, and only in the resolution pass; a second definition of a
\* name makes the resolution pass abort compilation, so a binary is returned
\* only for programs each of whose definitions has a name of its own.
C21_TableOnlyGrows ==
    /\ [](TableFunctional
            /\ (pc = "done" =>
                    Len(context.declarations) = Cardinality(DefinitionTokens)))
    /\ [][/\ TableGrows
          /\ context'.declarations # context.declarations => pc = "resolve"
          /\ (pc = "resolve" /\ ~DefinedOnce) => pc' = "panic"]_vars

\* the resolution pass has aborted on the second definition of a name
C21_Witness ==
    /\ pc = "panic"
    /\ ran.writes = 0
    /\ Len(context.declarations) = 1
    /\ \E i \in 1..Len(compiler.resolution_queue) :
            /\ compiler.resolution_queue[i].name = context.declarations[1].name
            /\ i > 1

\* the name the definition at token k gives: the text of the next token
NameAt(k) ==
    IF k < Len(compiler.tokens) /\ compiler.tokens[k + 1].ty = "Identifier"
            /\ SliceOk(compiler.text, compiler.tokens[k + 1].span)
    THEN slice(compiler.tokens[k + 1].span, compiler.text)
    ELSE <<>>

\* two definitions of the program give the same name
DefinesTwice ==
    \E j, k \in DefinitionTokens : j < k /\ NameAt(j) # <<>> /\ NameAt(j) = NameAt(k)

CountersAtLast ==
    IF out = <<>> THEN <<NoneV, 0, NoneV>>
    ELSE <<out[Len(out)].pos, out[Len(out)].line, out[Len(out)].col>>

\* C23: on a stream that ends with fewer bytes of its last character than
\* the leading byte declares, next_char and peek_char return the end of
\* input (None) and not an error, and leave the position counters unchanged.
C23_TruncatedIsEnd ==
    /\ rstat # "err"
    /\ (hist.peek.called /\ hist.peek.res = "none") => hist.peek.before = hist.peek.after
    /\ <<rd.char_pos, rd.line, rd.col>> = CountersAtLast
    /\ Len(out) < Len(input)

(***************************************************************************)
(* Line table claims.                                                      *)
(***************************************************************************)
\* the newlines of the input
InputNewlines == {j \in 1..Len(input) : input[j] = NL}

\* the place of the i-th newline of the input, which is also the offset of
\* the character after it
NthNewline(i) ==
    CHOOSE j \in InputNewlines : Cardinality({k \in InputNewlines : k <= j}) = i

\* the lines of the input, after line 0, that hold a character
LinesWithChars ==
    {i \in 1..Cardinality(InputNewlines) : NthNewline(i) < Len(input)}

\* C24: when reading is finished, the line table lines_consume returns has
\* entry 0 equal to 0 and, for every line i that holds a character, entry i
\* equal to the offset of the first character of line i, the offset just
\* after the i-th newline; the entries are strictly increasing.
C24_LineTable ==
    rstat = "eof" =>
        LET table == lines_consume(rd)
        IN  /\ table[1] = 0
            /\ \A i \in LinesWithChars :
                    Len(table) > i /\ table[i + 1] = NthNewline(i)
            /\ \A i \in 1..(Len(table) - 1) : table[i] < table[i + 1]

(***************************************************************************)
(* Cursor claims.                                                          *)
(***************************************************************************)
\* the write the emitter runs next
NextWrite == compiler.write_queue[ran.writes + 1]

\* C25: the parser's cursor stays in sync with the emitter's: when a
\* scheduled write runs, CompilerContext.address is the value
\* Compiler.address had when the write was scheduled, and a symbol defined
\* from the cursor has the address of the write scheduled next; this holds
\* also when the cursor is advanced past 0xFFFF.
C25_CursorSync ==
    /\ (pc = "emit" /\ ran.writes < Len(compiler.write_queue)
            /\ NextWrite.kind = "write") => context.address = NextWrite.at
    /\ \A i \in 1..Len(compiler.resolution_queue) :
            LET q == compiler.resolution_queue[i]
            IN  (q.cursor /\ q.next_write <= Len(compiler.write_queue)
                    /\ compiler.write_queue[q.next_write].kind = "write")
                    => compiler.write_queue[q.next_write].at = q.value

(***************************************************************************)
(* Termination claims.                                                     *)
(***************************************************************************)
\* a turn of the top-level loop or of the block loop takes a token, or is
\* the turn in which the block loop finds the tokens at their end
ParseProgress ==
    (pc = "parse" /\ pc' = "parse") =>
        \/ compiler'.rem > compiler.rem
        \/ frame.open /\ ~frame'.open /\ Remaining(compiler) = 0

\* a sweep after which the resolution loop goes on has removed an entry
SweepProgress ==
    (pc = "resolve" /\ pc' = "resolve") =>
        Len(compiler'.resolution_queue) < Len(compiler.resolution_queue)

\* C26: compile terminates on every finite token sequence: each turn of the
\* top-level loop and of the block loop consumes at least one token, and the
\* resolution loop ends after finitely many sweeps, a sweep that removes no
\* entry stopping the loop.
C26_Terminates ==
    /\ <>Ended
    /\ [][ParseProgress /\ SweepProgress]_vars

\* compile has come to its end through the three loops: a block was parsed,
\* a sweep has run and a write has run
C26_Witness ==
    /\ pc = "done"
    /\ Len(compiler.blocks) > 0
    /\ ran.resolutions > 1
    /\ ran.writes > 1

(***************************************************************************)
(* Resolution pass and emission claims.                                    *)
(***************************************************************************)
\* a sweep that ran to its end
SweepDone == pc = "resolve" /\ ran'.resolutions > ran.resolutions /\ pc' # "panic"

\* C27: in the resolution pass, a sweep that removes at least one entry
\* while entries remain is followed by another sweep over exactly the
\* remaining entries; a sweep that removes none while n > 0 entries remain
\* records exactly n unresolved-declaration errors and stops resolution, and
\* no write is executed.
C27_SweepRule ==
    [][SweepDone =>
        LET before == Len(compiler.resolution_queue)
            after == Len(compiler'.resolution_queue)
        IN  /\ (0 < after /\ after < before) => pc' = "resolve"
            /\ (0 < after /\ after = before) =>
                    /\ compiler'.errors =
                            compiler.errors \o [i \in 1..after |-> UnresolvedError]
                    /\ pc' = "failed"
                    /\ ran'.writes = 0]_vars

\* C27: every sweep that runs to its end leaves the queue empty, every
\* closure of the queue answering true: neither case of the rule arises
C27_SweepEmpties ==
    [][SweepDone => Len(compiler'.resolution_queue) = 0]_vars

\* the write queue grows at its end only
QueueGrows ==
    /\ Len(compiler'.write_queue) >= Len(compiler.write_queue)
    /\ \A i \in 1..Len(compiler.write_queue) :
            compiler'.write_queue[i] = compiler.write_queue[i]

\* a turn of the write loop runs the entry after the ones already run, and
\* runs it whole: an origin move sets the cursor, a byte write leaves its N
\* bytes in the binary and the cursor behind them
RunsNextEntry ==
    /\ ran'.writes = ran.writes + 1
    /\ pc' # "panic"
    /\ compiler'.write_queue = compiler.write_queue
    /\ IF NextWrite.kind = "set_address"
       THEN context'.address = NextWrite.addr
       ELSE /\ context'.address = context.address + NextWrite.n
            /\ Len(context'.binary) >= context'.address

\* C28: when emission runs, every entry of the write queue (byte writes and
\* origin moves) is executed exactly once, in the order in which it was
\* scheduled during parsing, and only after the resolution pass has ended;
\* the symbol table is not modified during emission.
C28_EmissionRunsQueue ==
    [][/\ QueueGrows
       /\ ran'.writes # ran.writes =>
            /\ pc = "emit" /\ Len(compiler.resolution_queue) = 0
            /\ RunsNextEntry
       /\ pc = "emit" =>
            /\ context'.declarations = context.declarations
            /\ pc' = "done" => ran.writes = Len(compiler.write_queue)]_vars

(***************************************************************************)
(* Immediate range and origin claims.                                      *)
(***************************************************************************)
\* the literals above 0xFF: $100 and $FFFF
WideImmediates == {35, 37}

\* the error of try_into_u8 for value v and register r
TooBigError(e, r, v) ==
    e.message = <<"Number", ValueOfWord(v), "is too big to fit into the",
                  RegisterOfWord(r), "register">>

\* C29: for `ld r, v` with r a short register and v an immediate with
\* 0xFF < v <= 0xFFFF, exactly one error is recorded, whose message names
\* register r; no write is scheduled and the address cursor is unchanged;
\* the value is never truncated to 8 bits.
C29_WideImmediateRefused ==
    \A o \in Origins, r \in ShortRegisterWords, v \in WideImmediates :
        (input = WordsText(o \o Block(LdImm(r, v))) /\ Parsed) =>
            /\ pc = "failed"
            /\ Len(compiler.errors) = 1
            /\ TooBigError(compiler.errors[1], r, v)
            /\ result = [kind |-> "Err", errors |-> compiler.errors]
            /\ \A k \in 1..Len(compiler.write_queue) :
                    compiler.write_queue[k].kind = "set_address"
            /\ compiler.address = BaseOf(o)

\* `ld R, $FFFF` at $FFFD has been refused
C29_Witness ==
    /\ input = WordsText(Origin(45) \o Block(LdImm(31, 37)))
    /\ pc = "failed"
    /\ Len(result.errors) = 1
    /\ TooBigError(result.errors[1], 31, 37)
    /\ compiler.address = 65533

\* a turn of the top-level loop has read a well-formed `@origin(n)`: the
\* origin move is scheduled and no error is recorded
ReadsOrigin ==
    /\ pc = "parse"
    /\ Len(compiler'.write_queue) = Len(compiler.write_queue) + 1
    /\ compiler'.write_queue[Len(compiler'.write_queue)].kind = "set_address"
    /\ compiler'.errors = compiler.errors

\* the entry the write loop ran last was an origin move
AfterOriginMove ==
    /\ pc = "emit"
    /\ ran.writes > 0
    /\ compiler.write_queue[ran.writes].kind = "set_address"

\* C30: after a well-formed `@origin(n)` the parser cursor equals n, so the
\* next defined sub or rom symbol has value n and the next emitted byte is
\* written at offset n of the binary; the pragma performs no collision check
\* and leaves the recorded allocated areas and all previously scheduled
\* writes unchanged.
C30_OriginMovesCursor ==
    /\ [](\A k \in 1..Len(compiler.write_queue) :
            LET w == compiler.write_queue[k]
            IN  w.kind = "set_address" =>
                    /\ k = Len(compiler.write_queue) => compiler.address = w.addr
                    /\ (k < Len(compiler.write_queue)
                            /\ compiler.write_queue[k + 1].kind = "write")
                            => compiler.write_queue[k + 1].at = w.addr
                    /\ \A i \in 1..Len(compiler.resolution_queue) :
                            LET q == compiler.resolution_queue[i]
                            IN  (q.cursor /\ q.next_write = k + 1) => q.value = w.addr)
    /\ [][/\ ReadsOrigin =>
                /\ compiler'.address =
                        compiler'.write_queue[Len(compiler'.write_queue)].addr
                /\ compiler'.allocated_areas = compiler.allocated_areas
                /\ compiler'.resolution_queue = compiler.resolution_queue
                /\ QueueGrows
                /\ pc' = "parse"
          /\ (AfterOriginMove /\ ran'.writes > ran.writes /\ pc' # "panic"
                    /\ NextWrite.kind = "write") =>
                LET n == compiler.write_queue[ran.writes].addr
                    b == ClosureBytes(NextWrite.f, context)
                IN  /\ context.address = n
                    /\ Len(context'.binary) >= n + NextWrite.n
                    /\ \A j \in 1..NextWrite.n :
                            context'.binary[n + j] = b.data[j]]_vars

\* a program with two origin moves has compiled: the second one was read
\* with an area recorded and a write scheduled, and a write followed it
C30_Witness ==
    /\ pc = "done"
    /\ Len(compiler.allocated_areas) > 1
    /\ \E k \in 2..(Len(compiler.write_queue) - 1) :
            /\ compiler.write_queue[k].kind = "set_address"
            /\ compiler.write_queue[k - 1].kind = "write"
            /\ compiler.write_queue[k + 1].kind = "write"
            /\ result.binary[compiler.write_queue[k].addr + 1] =
                    ClosureBytes(compiler.write_queue[k + 1].f, context).data[1]

(***************************************************************************)
(* Data declaration claims.                                                *)
(***************************************************************************)
\* the cursor at the rom declaration of a program of RomPrograms
RomStart(o, p) == BaseOf(o) + (IF p = <<>> THEN 0 ELSE 2)

\* the entry of the resolution queue, or of the table, that defines y
DefinesY(value) ==
    \/ get(context, <<121>>) = [some |-> TRUE, v |-> value]
    \/ \E i \in 1..Len(compiler.resolution_queue) :
            /\ compiler.resolution_queue[i].name = <<121>>
            /\ compiler.resolution_queue[i].value = value

\* what `rom y : size = z` at cursor `start` is to leave once parsing is over
RomDeclared(size, start) ==
    LET last == compiler.write_queue[Len(compiler.write_queue)]
    IN  IF size = <<41>>
        THEN /\ compiler.errors = <<>>
             /\ ~compiler.panicked
             /\ DefinesY(start)
             /\ Len(compiler.write_queue) > 0
             /\ last.kind = "write" /\ last.n = 2 /\ last.at = start
             /\ compiler.address = start + 2
             /\ Ended => /\ pc = "done" /\ result.kind = "Ok"
                         /\ Len(result.binary) = start + 2
                         /\ result.binary[start + 1] = 255
                         /\ result.binary[start + 2] = 0
        ELSE /\ pc = "failed"
             /\ Len(compiler.errors) = 1
             /\ compiler.errors[1].message =
                    <<"Invalid data size", ValueOfWord(size[1]), "expected 2">>
             /\ \A k \in 1..Len(compiler.write_queue) :
                    compiler.write_queue[k].kind = "set_address"
                        \/ compiler.write_queue[k].at < start
             /\ compiler.address = start

\* C31: `rom NAME : 2 = V` defines NAME as the emission address current at
\* the declaration and writes, at exactly that address, the two bytes of
\* V's resolved value in little-endian order, advancing the cursor by 2;
\* with any size other than 2 an error is recorded, no bytes are scheduled
\* and the cursor is unchanged.
C31_RomDeclaration ==
    /\ \A o \in SymbolOrigins, p \in RomPrefixes, size \in RomSizes :
            (input = WordsText(o \o p \o RomLine(size)) /\ Parsed)
                => RomDeclared(size, RomStart(o, p))
    /\ \A size \in RomSizes :
            (input = WordsText(Origin(37) \o RomLine(size)) /\ Parsed)
                => RomDeclared(size, 65535)

(***************************************************************************)
(* Operand claims.                                                         *)
(***************************************************************************)
\* the tokens read_data_target was given
TargetTokens == compiler.tokens

\* token k is there and is a `*`
StarAt(k) == Len(TargetTokens) >= k /\ TargetTokens[k].ty = "Star"

\* the text of the first token
FirstText == SubSeq(input, TargetTokens[1].span.pos[1] + 1, TargetTokens[1].span.pos[2])

\* the value of the literal that stands first
FirstValue ==
    ValueOfWord(CHOOSE w \in 33..38 : Words[w] = FirstText)

\* the operand is of form `kind`, and with `*` the `*` is taken as well
ReadAs(plain, starred) ==
    /\ result.r.st = "ok"
    /\ result.r.v.kind = (IF StarAt(2) THEN starred ELSE plain)
    /\ compiler.rem = (IF StarAt(2) THEN 2 ELSE 1)

\* C32: read_data_target tries the forms in the order register, numeric
\* literal, identifier and the first match wins: a Register token gives
\* Register; a literal gives Address if immediately followed by `*` (which
\* is consumed) and Immediate otherwise; an identifier gives
\* IdentifierAddress with `*` and IdentifierImmediate otherwise; if none
\* matches it returns an error at the current token and consumes no token.
C32_ReadDataTarget ==
    (pc = "read" /\ Len(TargetTokens) > 0) =>
        LET ty == TargetTokens[1].ty
        IN  IF ty = "Register"
            THEN /\ result.r.st = "ok"
                 /\ result.r.v.kind = "Register"
                 /\ compiler.rem = 1
            ELSE IF ty \in {"HexNumber", "DecNumber"} /\ FirstValue <= 65535
            THEN ReadAs("Immediate", "Address") /\ result.r.v.v = FirstValue
            ELSE IF ty = "Identifier"
            THEN /\ ReadAs("IdentifierImmediate", "IdentifierAddress")
                 /\ result.r.v.name = FirstText
            ELSE /\ result.r.st = "err"
                 /\ result.r.e.span = TargetTokens[1].span
                 /\ compiler.rem = 0

\* the first `ld` of the program and the last token of its line
MnemonicAt ==
    CHOOSE i \in 1..Len(compiler.tokens) :
        /\ compiler.tokens[i].ty = "Instruction"
        /\ \A k \in 1..(i - 1) : compiler.tokens[k].ty # "Instruction"
LastOperandAt ==
    CHOOSE j \in MnemonicAt..Len(compiler.tokens) :
        /\ compiler.tokens[j + 1].ty = "NewLine"
        /\ \A k \in MnemonicAt..j : compiler.tokens[k].ty # "NewLine"

\* the span from the first character of token i to the end of token j
SpanOver(i, j) ==
    [pos |-> <<compiler.tokens[i].span.pos[1], compiler.tokens[j].span.pos[2]>>,
     col |-> <<compiler.tokens[i].span.col[1], compiler.tokens[j].span.col[2]>>,
     line |-> compiler.tokens[i].span.line]

\* C33: the error recorded for an unsupported `ld` operand combination has
\* a span that covers the whole instruction: its position and column ranges
\* start at the mnemonic's first character and end just after the last
\* operand, and its line range is the line of the instruction.
C33_LdErrorSpan ==
    \A b \in BadLdLines, l \in SecondLines :
        (input = WordsText(Block(b \o l)) /\ Parsed) =>
            /\ Len(compiler.errors) > 0
            /\ NamesBothOperands(compiler.errors[1], b)
            /\ compiler.errors[1].span = SpanOver(MnemonicAt, LastOperandAt)

(***************************************************************************)
(* Comment claims.                                                         *)
(***************************************************************************)
\* the token covers exactly two characters of the text, both `/`
TwoSlashes(t) ==
    /\ t.span.pos[2] = t.span.pos[1] + 2
    /\ input[t.span.pos[1] + 1] = 47 /\ input[t.span.pos[1] + 2] = 47

EndsInComment ==
    \E i \in 1..(Len(input) - 1) :
        /\ input[i] = 47 /\ input[i + 1] = 47
        /\ \A j \in (i + 2)..Len(input) : input[j] # NL

\* the messages of a result's errors
Messages(r) ==
    IF r.kind = "Err" THEN [k \in 1..Len(r.errors) |-> r.errors[k].message] ELSE <<>>

AreaOf(b) == [name |-> b.name, range |-> b.range]

\* the finished blocks that were not reported, in the order they finished
RECURSIVE Unreported(_)
Unreported(blocks) ==
    IF blocks = <<>> THEN <<>>
    ELSE IF Head(blocks).reported THEN Unreported(Tail(blocks))
    ELSE <<AreaOf(Head(blocks))>> \o Unreported(Tail(blocks))

\* the list of areas grows at its end only
AreasGrow ==
    /\ Len(compiler'.allocated_areas) >= Len(compiler.allocated_areas)
    /\ \A i \in 1..Len(compiler.allocated_areas) :
            compiler'.allocated_areas[i] = compiler.allocated_areas[i]

\* C35: the allocated-area list is append-only and gets one entry for every
\* `sub` block that finishes parsing, including a block that was reported
\* as overlapping, so a later block that intersects any earlier finished
\* block is checked against it.
C35_EveryBlockRecorded ==
    /\ [](/\ Len(compiler.allocated_areas) = Len(compiler.blocks)
          /\ \A i \in 1..Len(compiler.blocks) :
                /\ compiler.allocated_areas[i] = AreaOf(compiler.blocks[i])
                /\ Len(compiler.blocks[i].areas) = i - 1)
    /\ [][AreasGrow]_vars

\* C35, amended: the allocated-area list is append-only and gets one entry
\* for every `sub` block that finishes parsing without being reported as
\* overlapping; a block that was reported is not recorded, so a later block
\* is checked against the earlier blocks that were not reported, and
\* against those only.
C35_UnreportedBlocksRecorded ==
    /\ [](/\ compiler.allocated_areas = Unreported(compiler.blocks)
          /\ \A i \in 1..Len(compiler.blocks) :
                compiler.blocks[i].areas = Unreported(SubSeq(compiler.blocks, 1, i - 1)))
    /\ [][AreasGrow]_vars

\* three blocks have finished: the second was reported and is not in the
\* list, the third was checked against the first only and is recorded
C35_Witness ==
    /\ Len(compiler.blocks) = 3
    /\ ~compiler.blocks[1].reported
    /\ compiler.blocks[2].reported
    /\ ~compiler.blocks[3].reported
    /\ Len(compiler.allocated_areas) = 2
    /\ Intersects(compiler.blocks[2].range, compiler.blocks[3].range)

\* C36: an overlap error is reported only when the two blocks really share
\* at least one address: a `sub` block that emits no bytes (empty range) is
\* never reported as overlapping another block, and blocks whose ranges
\* merely touch (one ends where the other starts) are not reported.
C36_OverlapOnlyIfShared ==
    \A i \in 1..Len(compiler.blocks) :
        LET b == compiler.blocks[i]
        IN  /\ b.reported =>
                    \E k \in 1..Len(b.areas) : Intersects(b.range, b.areas[k].range)
            /\ b.errs_after > b.errs_before => b.reported

(***************************************************************************)
(* End of input claims.                                                    *)
(***************************************************************************)
\* compile has returned an error list that ends with the end-of-input error
EofReported ==
    /\ pc = "failed"
    /\ result.kind = "Err"
    /\ Len(result.errors) > 0
    /\ result.errors[Len(result.errors)].message = <<"Expected identifier, found EOF">>

\* C37: when the token sequence ends in the middle of a construct (e.g.
\* after `sub`, after `def X =`, after `ld A,` or after `@`), the parser
\* records an 'Expected ..., found EOF' compile error and compile returns
\* the error list; reading a token at end of input never crashes.
C37_EofReported ==
    \A p \in TruncatedPrograms :
        (input = WordsText(p) /\ Ended) => EofReported

\* the text opens a block and holds no `}` at all
Unclosed ==
    /\ \E i \in 1..Len(compiler.tokens) : compiler.tokens[i].ty = "OpeningCurly"
    /\ \A i \in 1..Len(compiler.tokens) : compiler.tokens[i].ty # "ClosingCurly"

\* C38: a `sub` block whose closing `}` is missing before the end of the
\* token sequence is reported as a compile error and no binary is produced.
C38_UnclosedBlockReported ==
    (Unclosed /\ Ended) => (pc = "failed" /\ result.kind = "Err")

(***************************************************************************)
(* Letter case claims.                                                     *)
(***************************************************************************)
\* the text in lower case, as tokenize classifies it
LowerInput == Lower(input)

\* what compile returns for the text written as `sub x { ld A, $FF }` or as
\* `def y = $FF`
SameAsCanonical ==
    /\ pc = "done"
    /\ result.kind = "Ok"
    /\ result.binary = (IF LowerInput = Lower(WordsText(<<57, 34, 20>>))
                        THEN <<>> ELSE <<62, 255>>)

\* C39: every token the lexer classifies as Register is decoded by the
\* parser without crashing, whatever its letter case (`ld a, $FF` behaves
\* like `ld A, $FF`), and likewise every Instruction, LabelSpecifier and
\* DataDeclaration token is recognised by the parser independent of case.
C39_CaseIndependent ==
    \A p \in CasePrograms :
        (input = WordsText(p) /\ Ended) => SameAsCanonical

(***************************************************************************)
(* Newline token claims.                                                   *)
(***************************************************************************)
NewLineTokens == {i \in 1..Len(lexed) : lexed[i].ty = "NewLine"}

\* each token starts after the one before it and where that one has ended
InPositionOrder ==
    \A i \in 1..(Len(lexed) - 1) :
        /\ lexed[i].span.pos[1] < lexed[i + 1].span.pos[1]
        /\ lexed[i].span.pos[2] <= lexed[i + 1].span.pos[1]

\* C40: every newline character of the input yields exactly one NewLine
\* token, whatever precedes it (including a lone `/` directly before the
\* newline), so the number of NewLine tokens equals the number of newline
\* characters and tokens appear in strictly increasing, non-overlapping
\* position order.
C40_NewLinePerNewline ==
    lstat = "done" =>
        /\ Cardinality(NewLineTokens) = Cardinality(InputNewlines)
        /\ InPositionOrder

====
